---- MODULE Spec2Model ----
(***************************************************************************)
(* A model of the MLS side of core-crypto: the MlsCentral facade, its      *)
(* in-memory group store, the keystore partitions (groups, pending groups, *)
(* key packages) and the MlsConversation operations.  Every handler of the *)
(* source is one action; the MLS library (openmls) is modelled by the      *)
(* operators of the "MLS group" section.                                   *)
(***************************************************************************)
EXTENDS Integers, Sequences, FiniteSets, TLC

\* ------------------------------------------------------------------ bounds
\* highest epoch a commit may be created for
MaxEpoch == 2
\* highest sender-ratchet generation a member encrypts at, per epoch
MaxGen == 2
\* key packages a client generates in its pool
MaxKp == 3
\* conversations the clients create
MaxCreated == 1
\* commits and proposals the clients make
MaxCommits == 2
\* largest amount one key-package request asks for
MaxRequest == 2
\* application messages sent in all while commits are exercised
MaxSent == 1
\* key packages a client publishes while conversations are exercised
MaxPublished == 1
\* lifetime of a key package, in clock ticks
KpLifetime == 2
\* last clock tick
MaxTime == 3
\* highest epoch a conversation reaches while past epochs are exercised
LastEpoch == 5
\* last clock tick at which a short-lived certificate is valid
CertLifetime == 1
\* signature key pairs a central makes before its client has an id
MaxKeypairs == 1

\* ------------------------------------------------------- program constants
\* MlsGroupConfig: max_past_epochs(3)
MaxPastEpochs == 3
\* SenderRatchetConfiguration::new(2, 5): out-of-order tolerance
OutOfOrderTolerance == 2
\* SenderRatchetConfiguration::new(2, 5): maximum forward distance
MaximumForwardDistance == 5
\* EntropySeed::EXPECTED_LEN: the bytes of a seed of the random generator
EXPECTED_LEN == 32

\* ----------------------------------------------------------------- inputs
Clients == {"alice", "bob", "carol"}
\* the two clients of the specifications in which "carol" stays idle
Pair == {"alice", "bob"}
\* the clients that start conversations
Creators == {"alice"}
\* client identities a caller may name; "dave" never joins anything
Identities == Clients \cup {"dave"}
ConvIds == {"g1"}
Plaintexts == {"hello"}
\* the threads of an application that share a conversation
Threads == {"t1", "t2"}

\* strings given to the configuration: empty, blank, a name, a name after a blank
Strings == {<<>>, <<" ">>, <<"a">>, <<" ", "a">>}
\* Option<ClientId>: none, or some bytes (empty, a blank, a name)
OptionClientId == {<<>>} \cup {<<id>> : id \in {<<>>, <<" ">>, <<"a">>}}
\* n bytes of entropy
Bytes(n) == [i \in 1..n |-> i]
\* Option<Vec<u8>>: none, or a seed one byte short, exact, one byte long
OptionEntropy ==
    {<<>>} \cup {<<Bytes(n)>> : n \in {EXPECTED_LEN - 1, EXPECTED_LEN, EXPECTED_LEN + 1}}

\* a Basic credential: a bare signature key, no certificate
BasicCredential ==
    [type |-> "Basic", not_before |-> 0, not_after |-> 0, identity |-> FALSE]

\* the X.509 certificates a client enrols with: valid all along, short-lived,
\* and one whose identity cannot be extracted
Certificates ==
    {[type |-> "X509", not_before |-> 0, not_after |-> MaxTime, identity |-> TRUE],
     [type |-> "X509", not_before |-> 0, not_after |-> CertLifetime, identity |-> TRUE],
     [type |-> "X509", not_before |-> 0, not_after |-> MaxTime, identity |-> FALSE]}

\* ClientIdentifier: Basic(id) or X509(certificate bundle)
ClientIdentifier == {BasicCredential} \cup Certificates

\* the object stores of the browser keystore that are modelled
\* the user ids conversation members are generated for
UserIds == {"u1", "u2"}

Collections == {"e2ei_enrollment", "mls_hpke_private_keys"}

VARIABLES
    calls,          \* the calls of add_members and remove_members in progress, by thread
    configuration,  \* the MlsCentralConfiguration the application holds, if any
    ks_keypairs,    \* keystore, signature key pairs made before the client has an id
    credentials,    \* Client: the most recent credential of the MLS client
    callbacks,      \* MlsCentral.callbacks: the authorization callbacks, if set
    mls_client,     \* MlsCentral.mls_client: is the MLS client initialised
    mls_groups,     \* MlsCentral.mls_groups: in-memory store, id -> conversation
    ks_groups,      \* keystore, main group partition: id -> serialized group
    ks_pending,     \* keystore, pending-group partition: id -> serialized group
    ks_keypackages, \* keystore, key packages not yet consumed
    kp_count,       \* key packages generated so far, per client
    directory,      \* key packages handed out to the delivery service
    network,        \* messages handed to the delivery service
    nonce,          \* freshness source of each client's crypto provider
    now,            \* wall-clock time
    lastOp          \* the last call made on a central and what it returned

VARIABLES
    ks_identities,  \* keystore, table proteus_identities: the rows in rowid order
    ks_sessions,    \* keystore, Proteus sessions: session id -> serialised session
    ks_prekeys,     \* keystore, Proteus prekeys: prekey id -> serialised prekey
    proteus,        \* CoreCrypto.proteus: the ProteusCentral, if initialised
    cryptobox,      \* the folder a legacy Cryptobox client left behind, if any
    storage,        \* browser keystore: collection name -> id -> stored entity
    member,         \* the ConversationMember of each user id, once generated
    key_store       \* MlsCryptoProvider.key_store(): what the member stored in it

\* the Proteus engine and its part of the keystore
proteusVars == <<ks_identities, ks_sessions, ks_prekeys, proteus, cryptobox>>

\* the conversation member and its backend
memberVars == <<member, key_store>>

\* the MLS central, its keystore and its environment
mlsVars == <<calls, configuration, ks_keypairs, credentials, callbacks, mls_client, mls_groups,
             ks_groups, ks_pending, ks_keypackages, kp_count, directory, network, nonce, now>>

vars == <<calls, configuration, ks_keypairs, credentials, callbacks, mls_client, mls_groups, ks_groups, ks_pending, ks_keypackages,
          kp_count, directory, network, nonce, now, lastOp, proteusVars, storage, memberVars>>

\* ---------------------------------------------------------------- helpers
Put(f, k, v) == [x \in DOMAIN f \cup {k} |-> IF x = k THEN v ELSE f[x]]

Del(f, k) == [x \in DOMAIN f \ {k} |-> f[x]]

\* the result of the last call: out is a conversation id or the kind of the
\* messages returned, msg the message returned, kps the key packages returned
Ok(op, c, out) ==
    [op |-> op, client |-> c, ok |-> TRUE, err |-> "", out |-> out, msg |-> <<>>, kps |-> {},
     count |-> 0, keys |-> {}]

OkMsg(op, c, m) == [Ok(op, c, "message") EXCEPT !.msg = <<m>>]

OkKps(op, c, kps) == [Ok(op, c, "keypackages") EXCEPT !.kps = kps]

OkCount(op, c, n) == [Ok(op, c, "count") EXCEPT !.count = n]

OkKeys(op, c, keys) == [Ok(op, c, "keys") EXCEPT !.keys = keys]

Err(op, c, e) ==
    [op |-> op, client |-> c, ok |-> FALSE, err |-> e, out |-> "none", msg |-> <<>>,
     kps |-> {}, count |-> 0, keys |-> {}]

\* ---------------------------------------------------------------- MLS group
\* Sender::NewMember / Sender::Member identities inside a group
Members(g) == g.members

IsOperational(g) == g.active /\ g.pending = <<>>

\* the leaf of a member in the ratchet tree: its identity and its credential
Leaf(c, cred) == [owner |-> c, cred |-> cred]

\* the owners of the leaves of a tree
Owners(leaves) == {leaves[i].owner : i \in DOMAIN leaves}

\* the leaves of the members in owners, with the credentials creds gives them
RECURSIVE NewLeaves(_, _)
NewLeaves(owners, creds) ==
    IF owners = {} THEN <<>>
    ELSE LET o == CHOOSE x \in owners : TRUE
         IN  <<Leaf(o, creds[o])>> \o NewLeaves(owners \ {o}, creds)

\* the leaves of the members in keep, in the order of the tree
RECURSIVE KeepLeaves(_, _)
KeepLeaves(leaves, keep) ==
    IF leaves = <<>> THEN <<>>
    ELSE IF Head(leaves).owner \in keep
    THEN <<Head(leaves)>> \o KeepLeaves(Tail(leaves), keep)
    ELSE KeepLeaves(Tail(leaves), keep)

\* MlsGroup::new: a group of one member at epoch 0, flagged as changed; the
\* leaf of the creator carries the credential of its client
NewGroup(id, c, fresh) ==
    [id |-> id, epoch |-> 0, tx |-> fresh, members |-> {c},
     leaves |-> <<Leaf(c, credentials[c][1])>>, active |-> TRUE,
     pending |-> <<>>, proposals |-> {}, gen |-> 0, used |-> {}, past |-> <<>>,
     changed |-> TRUE]

\* the commit a member builds on its current state; it covers the proposals of
\* the member's proposal store
NewCommit(g, c, fresh, adds, removes, external) ==
    [type |-> "commit", id |-> g.id, epoch |-> g.epoch, tx |-> g.tx, sender |-> c,
     cid |-> fresh, adds |-> adds, removes |-> removes, props |-> g.proposals,
     external |-> external, creds |-> <<>>]

\* the commit with the credentials of the leaves it brings: the ones of the
\* key packages it adds, or the new one of its sender
WithCredentials(cm, creds) == [cm EXCEPT !.creds = creds]

\* the credentials of the key packages kps, by owner
KeyPackageCredentials(kps) ==
    [o \in {k.owner : k \in kps} |-> (CHOOSE k \in kps : k.owner = o).cred]

\* the members a commit removes, itself or through the proposals it covers
Removed(cm) ==
    cm.removes \cup {p.target : p \in {q \in cm.props : q.kind = "remove"}}

\* the tree once a commit is applied: the leaves of the removed members go,
\* the leaves the commit brings a credential for are replaced, and the members
\* it adds get a leaf
MergeLeaves(leaves, cm) ==
    LET kept == KeepLeaves(leaves, Owners(leaves) \ Removed(cm))
        updated == [i \in DOMAIN kept |->
                       IF kept[i].owner \in DOMAIN cm.creds
                       THEN Leaf(kept[i].owner, cm.creds[kept[i].owner])
                       ELSE kept[i]]
    IN  updated \o NewLeaves(cm.adds \ Owners(kept), cm.creds)

\* a welcome that tells the state of the group before the commit
NewWelcome_WithoutAdds(g, cm, kps) ==
    [type |-> "welcome", id |-> g.id, epoch |-> g.epoch + 1, tx |-> cm.cid,
     members |-> g.members, leaves |-> g.leaves, kps |-> kps]

\* the welcome that goes with a commit adding key packages kps
NewWelcome(g, cm, kps) ==
    [type |-> "welcome", id |-> g.id, epoch |-> g.epoch + 1, tx |-> cm.cid,
     members |-> (g.members \ Removed(cm)) \cup cm.adds,
     leaves |-> MergeLeaves(g.leaves, cm), kps |-> kps]

\* a group that never drops the message secrets of a past epoch
KeepPast_All(past) == past

\* the message secrets kept for past epochs: the last MaxPastEpochs of them
KeepPast(past) ==
    IF Len(past) > MaxPastEpochs
    THEN SubSeq(past, Len(past) - MaxPastEpochs + 1, Len(past))
    ELSE past

\* merge_staged_commit that leaves a removed member its group as usable
MergeStagedCommit_StaysActive(g, cm, c) ==
    [g EXCEPT !.epoch = g.epoch + 1,
              !.tx = cm.cid,
              !.members = (g.members \ Removed(cm)) \cup cm.adds,
              !.leaves = MergeLeaves(g.leaves, cm),
              !.pending = <<>>,
              !.proposals = {},
              !.gen = 0,
              !.used = {},
              !.past = KeepPast(Append(g.past,
                           [epoch |-> g.epoch, tx |-> g.tx, members |-> g.members,
                            used |-> g.used])),
              !.changed = TRUE]

\* MlsGroup::merge_staged_commit, as run by the client c: the next epoch
MergeStagedCommit(g, cm, c) ==
    LET members == (g.members \ Removed(cm)) \cup cm.adds
    IN  [g EXCEPT !.epoch = g.epoch + 1,
                  !.tx = cm.cid,
                  !.members = members,
                  !.leaves = MergeLeaves(g.leaves, cm),
                  !.active = g.active /\ c \in members,
                  !.pending = <<>>,
                  !.proposals = {},
                  !.gen = 0,
                  !.used = {},
                  !.past = KeepPast(Append(g.past,
                               [epoch |-> g.epoch, tx |-> g.tx, members |-> g.members,
                                used |-> g.used])),
                  !.changed = TRUE]

\* MlsGroup::merge_pending_commit: merges the pending commit when there is one
MergePendingCommit(g, c) ==
    IF g.pending = <<>> THEN g ELSE MergeStagedCommit(g, g.pending[1], c)

\* MlsGroup::new_from_welcome
GroupFromWelcome(w) ==
    [id |-> w.id, epoch |-> w.epoch, tx |-> w.tx, members |-> w.members,
     leaves |-> w.leaves, active |-> TRUE, pending |-> <<>>, proposals |-> {}, gen |-> 0, used |-> {},
     past |-> <<>>, changed |-> TRUE]

\* MlsGroup::export_public_group_state
PublicGroupState(g) ==
    [id |-> g.id, epoch |-> g.epoch, tx |-> g.tx, members |-> g.members,
     leaves |-> g.leaves]

\* the sender ratchet of sender s: one past the highest generation consumed
RatchetHead(used, s) ==
    LET gens == {u[2] : u \in {v \in used : v[1] = s}}
    IN  IF gens = {} THEN 0 ELSE 1 + CHOOSE x \in gens : \A y \in gens : y <= x

\* may generation gen of sender s still be decrypted: never a second time, and
\* within the window of the sender-ratchet configuration
RatchetAccepts(used, s, gen) ==
    /\ <<s, gen>> \notin used
    /\ gen <= RatchetHead(used, s) + MaximumForwardDistance
    /\ gen + OutOfOrderTolerance >= RatchetHead(used, s)

\* ---------------------------------------------------------- serialization
\* MlsGroup::save: everything but the state_changed flag is written
Save(g) == [f \in DOMAIN g \ {"changed"} |-> g[f]]

\* MlsGroup::load: the flag of a loaded group says "persisted"
Load(buf) == [f \in DOMAIN buf \cup {"changed"} |->
                 IF f = "changed" THEN FALSE ELSE buf[f]]

\* MlsGroup::save resets the flag of the group it serialized
Saved(g) == [g EXCEPT !.changed = FALSE]

\* MlsConversation::from_serialized_state: admins are not part of the row
FromSerializedState(buf) == [group |-> Load(buf), admins |-> {}]

\* ------------------------------------------------------------------- Init
\* a thread that is in no call
NoCall ==
    [pc |-> "idle", op |-> "none", client |-> "none", id |-> "none", member_kps |-> {},
     out |-> {}, buf |-> <<>>]

NoOp == Ok("none", "none", "none")

Init ==
    /\ calls = [t \in Threads |-> NoCall]
    /\ configuration = <<>>
    /\ ks_keypairs = [c \in Clients |-> {}]
    /\ credentials = [c \in Clients |-> <<>>]
    /\ callbacks = [c \in Clients |-> <<>>]
    /\ mls_client = [c \in Clients |-> FALSE]
    /\ mls_groups = [c \in Clients |-> <<>>]
    /\ ks_groups = [c \in Clients |-> <<>>]
    /\ ks_pending = [c \in Clients |-> <<>>]
    /\ ks_keypackages = [c \in Clients |-> {}]
    /\ kp_count = [c \in Clients |-> 0]
    /\ directory = {}
    /\ network = {}
    /\ nonce = [c \in Clients |-> [group |-> 0, commit |-> 0]]
    /\ now = 0
    /\ lastOp = NoOp
    /\ ks_identities = <<>>
    /\ ks_sessions = <<>>
    /\ ks_prekeys = <<>>
    /\ proteus = <<>>
    /\ cryptobox = <<>>
    /\ storage = [collection \in Collections |-> <<>>]
    /\ member = [id \in UserIds |-> <<>>]
    /\ key_store = <<>>

\* ------------------------------------------------------ keystore and store
\* CryptoKeystoreMls::mls_group_persist
MlsGroupPersist(c, id, g) == [ks_groups EXCEPT ![c] = Put(@, id, Save(g))]

\* CryptoKeystoreMls::mls_pending_groups_save
MlsPendingGroupsSave(c, id, g) == [ks_pending EXCEPT ![c] = Put(@, id, Save(g))]

\* CryptoKeystoreMls::mls_pending_groups_load: the row, or the missing-key error
MlsPendingGroupsLoad(c, id) ==
    IF id \in DOMAIN ks_pending[c]
    THEN [ok |-> TRUE, err |-> "", row |-> <<ks_pending[c][id]>>]
    ELSE [ok |-> FALSE, err |-> "MissingKeyInStore(MlsPendingGroup)", row |-> <<>>]

\* CryptoKeystoreMls::mls_pending_groups_delete
MlsPendingGroupsDelete(c, id) == [ks_pending EXCEPT ![c] = Del(@, id)]

\* an insert that keeps the conversation the store holds under the id
Insert_KeepsExisting(c, id, conv) ==
    IF id \in DOMAIN mls_groups[c] THEN mls_groups
    ELSE [mls_groups EXCEPT ![c] = Put(@, id, conv)]

\* GroupStore::insert
Insert(c, id, conv) == [mls_groups EXCEPT ![c] = Put(@, id, conv)]

Fresh(c, tag) == [by |-> c, n |-> nonce[c].group + nonce[c].commit + 1, tag |-> tag]

\* the conversations created and the commits and proposals made so far, over
\* all clients, stay within their bounds
CanFresh(kind) ==
    nonce["alice"][kind] + nonce["bob"][kind] + nonce["carol"][kind] <
        (IF kind = "group" THEN MaxCreated ELSE MaxCommits)

UseNonce(c, kind) == [nonce EXCEPT ![c][kind] = @ + 1]

Group(c, id) == mls_groups[c][id].group

SetGroup(c, id, g) == [mls_groups EXCEPT ![c][id].group = g]

\* ------------------------------------------------------------ key packages
KeyPackage(c, n, t) ==
    [owner |-> c, n |-> n, not_after |-> t, cred |-> credentials[c][1]]

Expired(kp) == kp.not_after <= now

\* the n key packages of lowest number among kps
RECURSIVE Lowest(_, _)
Lowest(kps, n) ==
    IF n = 0 \/ kps = {} THEN {}
    ELSE LET first == CHOOSE k \in kps : \A o \in kps : k.n <= o.n
         IN  {first} \cup Lowest(kps \ {first}, n - 1)

\* Client::request_key_packages: expired key packages are pruned, the stored
\* ones are served first and the lacking ones are generated
RequestKeyPackages(c, amount) ==
    LET valid == {kp \in ks_keypackages[c] : ~Expired(kp)}
        have == Lowest(valid, amount)
        lacking == amount - Cardinality(have)
        made == {KeyPackage(c, kp_count[c] + i, now + KpLifetime) : i \in 1..lacking}
    IN  [stored |-> valid \cup made, returned |-> have \cup made, generated |-> lacking]

\* MlsCentral::mls_init: Client::init makes the credential of the identifier
MlsInit(c, identifier) ==
    /\ IF mls_client[c]
       THEN /\ lastOp' = Err("mls_init", c, "ImplementationError")
            /\ UNCHANGED <<mls_client, credentials>>
       ELSE /\ mls_client' = [mls_client EXCEPT ![c] = TRUE]
            /\ credentials' = [credentials EXCEPT ![c] = <<identifier>>]
            /\ lastOp' = Ok("mls_init", c, "none")
    /\ UNCHANGED <<proteusVars, storage, memberVars, calls, configuration, ks_keypairs, callbacks, mls_groups, ks_groups, ks_pending, ks_keypackages,
                   kp_count, directory, network, nonce, now>>

\* get_or_create_client_keypackages that asks the client for one key package less
GetOrCreateClientKeypackages_OneLess(c, amount) ==
    /\ mls_client[c]
    /\ LET r == RequestKeyPackages(c, amount - 1)
       IN  /\ kp_count[c] + r.generated <= MaxKp
           /\ ks_keypackages' = [ks_keypackages EXCEPT ![c] = r.stored]
           /\ kp_count' = [kp_count EXCEPT ![c] = @ + r.generated]
           /\ directory' = directory \cup r.returned
           /\ lastOp' = OkKps("get_or_create_client_keypackages", c, r.returned)
    /\ UNCHANGED <<proteusVars, storage, memberVars, calls, configuration, ks_keypairs, credentials, callbacks, mls_client, mls_groups, ks_groups, ks_pending, network, nonce, now>>

\* MlsCentral::get_or_create_client_keypackages
GetOrCreateClientKeypackages(c, amount) ==
    /\ IF ~mls_client[c]
       THEN /\ lastOp' = Err("get_or_create_client_keypackages", c, "MlsNotInitialized")
            /\ UNCHANGED <<ks_keypackages, kp_count, directory>>
       ELSE LET r == RequestKeyPackages(c, amount)
            IN  /\ kp_count[c] + r.generated <= MaxKp
                /\ ks_keypackages' = [ks_keypackages EXCEPT ![c] = r.stored]
                /\ kp_count' = [kp_count EXCEPT ![c] = @ + r.generated]
                /\ directory' = directory \cup r.returned
                /\ lastOp' = OkKps("get_or_create_client_keypackages", c, r.returned)
    /\ UNCHANGED <<proteusVars, storage, memberVars, calls, configuration, ks_keypairs, credentials, callbacks, mls_client, mls_groups, ks_groups, ks_pending, network, nonce, now>>

\* MlsCentral::mls_generate_keypairs: Client::generate_raw_keypairs stores a
\* fresh signature key pair under a temporary client id and returns its public
\* key; the central still has no client
MlsGenerateKeypairs(c) ==
    /\ IF mls_client[c]
       THEN /\ lastOp' = Err("mls_generate_keypairs", c, "ImplementationError")
            /\ UNCHANGED ks_keypairs
       ELSE LET key == Cardinality(ks_keypairs[c]) + 1
            IN  /\ key <= MaxKeypairs
                /\ ks_keypairs' = [ks_keypairs EXCEPT ![c] = @ \cup {key}]
                /\ lastOp' = OkKeys("mls_generate_keypairs", c, {key})
    /\ UNCHANGED <<proteusVars, storage, memberVars, calls, configuration, credentials, callbacks, mls_client, mls_groups, ks_groups,
                   ks_pending, ks_keypackages, kp_count, directory, network, nonce, now>>

\* Client::init_with_external_client_id: the key pairs made beforehand are
\* looked up by their public keys and given the client id
InitWithExternalClientId(c, signature_public_keys) ==
    signature_public_keys # {} /\ signature_public_keys \subseteq ks_keypairs[c]

\* MlsCentral::mls_init_with_client_id
MlsInitWithClientId(c, signature_public_keys) ==
    /\ IF mls_client[c]
       THEN /\ lastOp' = Err("mls_init_with_client_id", c, "ImplementationError")
            /\ UNCHANGED <<mls_client, credentials>>
       ELSE IF ~InitWithExternalClientId(c, signature_public_keys)
       THEN /\ lastOp' = Err("mls_init_with_client_id", c, "ClientSignatureNotFound")
            /\ UNCHANGED <<mls_client, credentials>>
       ELSE /\ mls_client' = [mls_client EXCEPT ![c] = TRUE]
            /\ credentials' = [credentials EXCEPT ![c] = <<BasicCredential>>]
            /\ lastOp' = Ok("mls_init_with_client_id", c, "none")
    /\ UNCHANGED <<proteusVars, storage, memberVars, calls, configuration, ks_keypairs, callbacks, mls_groups, ks_groups, ks_pending,
                   ks_keypackages, kp_count, directory, network, nonce, now>>

\* Client::find_credential_bundle: the identities of a client are looked up by
\* credential type
FindCredentialBundle(c, type) == credentials[c][1].type = type

\* client_public_key that does not look whether the central has a client
ClientPublicKey_NoCheck(c) ==
    /\ lastOp' = IF mls_client[c] /\ ~FindCredentialBundle(c, "Basic")
                 THEN Err("client_public_key", c, "CredentialBundleNotFound")
                 ELSE Ok("client_public_key", c, "key")
    /\ UNCHANGED <<proteusVars, storage, memberVars, calls, configuration, ks_keypairs, credentials, callbacks, mls_client, mls_groups,
                   ks_groups, ks_pending, ks_keypackages, kp_count, directory, network,
                   nonce, now>>

\* MlsCentral::client_public_key: the signature key of the Basic credential
ClientPublicKey(c) ==
    /\ lastOp' = IF ~mls_client[c]
                 THEN Err("client_public_key", c, "MlsNotInitialized")
                 ELSE IF ~FindCredentialBundle(c, "Basic")
                 THEN Err("client_public_key", c, "CredentialBundleNotFound")
                 ELSE Ok("client_public_key", c, "key")
    /\ UNCHANGED <<proteusVars, storage, memberVars, calls, configuration, ks_keypairs, credentials, callbacks, mls_client, mls_groups,
                   ks_groups, ks_pending, ks_keypackages, kp_count, directory, network,
                   nonce, now>>

\* MlsCentral::client_id
ClientId(c) ==
    /\ lastOp' = IF ~mls_client[c]
                 THEN Err("client_id", c, "MlsNotInitialized")
                 ELSE Ok("client_id", c, c)
    /\ UNCHANGED <<proteusVars, storage, memberVars, calls, configuration, ks_keypairs, credentials, callbacks, mls_client, mls_groups,
                   ks_groups, ks_pending, ks_keypackages, kp_count, directory, network,
                   nonce, now>>

\* Client::valid_keypackages_count: the stored key packages that have not expired
ValidKeypackagesCount(c) == Cardinality({kp \in ks_keypackages[c] : ~Expired(kp)})

\* MlsCentral::client_valid_key_packages_count
ClientValidKeyPackagesCount(c) ==
    /\ lastOp' = IF ~mls_client[c]
                 THEN Err("client_valid_key_packages_count", c, "MlsNotInitialized")
                 ELSE OkCount("client_valid_key_packages_count", c, ValidKeypackagesCount(c))
    /\ UNCHANGED <<proteusVars, storage, memberVars, calls, configuration, ks_keypairs, credentials, callbacks, mls_client, mls_groups,
                   ks_groups, ks_pending, ks_keypackages, kp_count, directory, network,
                   nonce, now>>

\* ------------------------------------------------------------ conversations
\* create without its merge_pending_commit
Create_Unmerged(c, id, extra, admins) ==
    LET g0 == NewGroup(id, c, Fresh(c, "group"))
        cm == WithCredentials(
                  NewCommit(g0, c, Fresh(c, "commit"), {k.owner : k \in extra}, {}, FALSE),
                  KeyPackageCredentials(extra))
        g1 == IF extra = {} THEN g0 ELSE [g0 EXCEPT !.pending = <<cm>>]
    IN  [conversation |-> [group |-> Saved(g1), admins |-> admins],
         row |-> Save(g1),
         messages |-> IF extra = {} THEN {} ELSE {cm, NewWelcome(g0, cm, extra)}]

\* MlsConversation::create: the group, and the commit and welcome that go with
\* the extra members
Create(c, id, extra, admins) ==
    LET g0 == NewGroup(id, c, Fresh(c, "group"))
        cm == WithCredentials(
                  NewCommit(g0, c, Fresh(c, "commit"), {k.owner : k \in extra}, {}, FALSE),
                  KeyPackageCredentials(extra))
        g1 == IF extra = {} THEN g0
              ELSE MergePendingCommit([g0 EXCEPT !.pending = <<cm>>], c)
    IN  [conversation |-> [group |-> Saved(g1), admins |-> admins],
         row |-> Save(g1),
         messages |-> IF extra = {} THEN {} ELSE {cm, NewWelcome(g0, cm, extra)}]

\* MlsCentral::new_conversation
NewConversation(c, id, extra, admins) ==
    /\ IF ~mls_client[c]
       THEN /\ lastOp' = Err("new_conversation", c, "MlsNotInitialized")
            /\ UNCHANGED <<mls_groups, ks_groups, network, nonce>>
       ELSE IF Cardinality({k.owner : k \in extra}) # Cardinality(extra)
       THEN /\ lastOp' = Err("new_conversation", c, "DuplicateIdentityAddProposal")
            /\ UNCHANGED <<mls_groups, ks_groups, network, nonce>>
       ELSE /\ CanFresh("group")
            /\ LET r == Create(c, id, extra, admins)
               IN  /\ ks_groups' = [ks_groups EXCEPT ![c] = Put(@, id, r.row)]
                   /\ mls_groups' = Insert(c, id, r.conversation)
                   /\ network' = network \cup r.messages
            /\ nonce' = UseNonce(c, "group")
            /\ lastOp' = Ok("new_conversation", c, IF extra = {} THEN "none" ELSE "welcome")
    /\ UNCHANGED <<proteusVars, storage, memberVars, calls, configuration, ks_keypairs, credentials, callbacks, mls_client, ks_pending, ks_keypackages, kp_count, directory, now>>

\* the stored key packages of c a welcome is addressed to
Addressed(c, w) == {k \in w.kps : k.owner = c /\ k \in ks_keypackages[c]}

\* MlsConversation::from_welcome_message
FromWelcomeMessage(w) ==
    [conversation |-> [group |-> Saved(GroupFromWelcome(w)), admins |-> {}],
     row |-> Save(GroupFromWelcome(w))]

\* process_welcome_message that leaves the key package in the keystore
ProcessWelcomeMessage_KeepsKeyPackage(c, w) ==
    /\ w.type = "welcome"
    /\ Addressed(c, w) # {}
    /\ LET r == FromWelcomeMessage(w)
       IN  /\ ks_groups' = [ks_groups EXCEPT ![c] = Put(@, w.id, r.row)]
           /\ mls_groups' = Insert(c, w.id, r.conversation)
           /\ lastOp' = Ok("process_welcome_message", c, w.id)
    /\ UNCHANGED <<proteusVars, storage, memberVars, calls, configuration, ks_keypairs, credentials, callbacks, mls_client, ks_pending, ks_keypackages, kp_count, directory,
                   network, nonce, now>>

\* MlsCentral::process_welcome_message
ProcessWelcomeMessage(c, w) ==
    /\ w.type = "welcome"
    /\ IF Addressed(c, w) = {}
       THEN /\ lastOp' = Err("process_welcome_message", c, "NoMatchingKeyPackage")
            /\ UNCHANGED <<mls_groups, ks_groups, ks_keypackages>>
       ELSE LET r == FromWelcomeMessage(w)
            IN  /\ ks_keypackages' =
                       [ks_keypackages EXCEPT ![c] = @ \ Lowest(Addressed(c, w), 1)]
                /\ ks_groups' = [ks_groups EXCEPT ![c] = Put(@, w.id, r.row)]
                /\ mls_groups' = Insert(c, w.id, r.conversation)
                /\ lastOp' = Ok("process_welcome_message", c, w.id)
    /\ UNCHANGED <<proteusVars, storage, memberVars, calls, configuration, ks_keypairs, credentials, callbacks, mls_client, ks_pending, kp_count, directory, network, nonce, now>>

\* MlsGroup::add_members, remove_members and self_update refuse to commit: the
\* error, or "" when the commit is made
CommitFailure(g, c, cm, empty) ==
    IF ~g.active THEN "UseAfterEviction"
    ELSE IF g.pending # <<>> THEN "PendingCommit"
    ELSE IF empty THEN "EmptyInput"
    ELSE IF c \in Removed(cm) THEN "CannotRemoveSelf"
    ELSE ""

\* MlsGroup::add_members refuses key packages: the checks of every commit, then
\* two key packages of one identity, then an identity that is a member already
AddFailure(g, c, cm, kps) ==
    IF CommitFailure(g, c, cm, kps = {}) # "" THEN CommitFailure(g, c, cm, kps = {})
    ELSE IF Cardinality(cm.adds) # Cardinality(kps) THEN "DuplicateIdentityAddProposal"
    ELSE IF cm.adds \cap g.members # {} THEN "ExistingIdentityAddProposal"
    ELSE ""

\* add_members without its merge_pending_commit
AddMembersGroup_Unmerged(g, cm, c) == [g EXCEPT !.pending = <<cm>>]

\* MlsConversation::add_members, the group part: MlsGroup::add_members leaves the
\* commit pending and merge_pending_commit merges it at once
AddMembersGroup(g, cm, c) == MergePendingCommit([g EXCEPT !.pending = <<cm>>], c)

\* MlsConversation::add_members
AddMembers(c, id, kps) ==
    /\ id \in DOMAIN mls_groups[c]
    /\ LET g == Group(c, id)
           cm == WithCredentials(
                     NewCommit(g, c, Fresh(c, "commit"), {k.owner : k \in kps}, {}, FALSE),
                     KeyPackageCredentials(kps))
           merged == AddMembersGroup(g, cm, c)
       IN  IF AddFailure(g, c, cm, kps) # ""
           THEN /\ lastOp' = Err("add_members", c, AddFailure(g, c, cm, kps))
                /\ UNCHANGED <<mls_groups, ks_groups, network, nonce>>
           ELSE /\ mls_groups' = SetGroup(c, id, Saved(merged))
                /\ ks_groups' = MlsGroupPersist(c, id, merged)
                /\ network' = network \cup {cm, NewWelcome(g, cm, kps)}
                /\ nonce' = UseNonce(c, "commit")
                /\ lastOp' = Ok("add_members", c, "welcome")
    /\ UNCHANGED <<proteusVars, storage, memberVars, calls, configuration, ks_keypairs, credentials, callbacks, mls_client, ks_pending, ks_keypackages, kp_count, directory, now>>

\* MlsConversation::remove_members
RemoveMembers(c, id, clients) ==
    /\ id \in DOMAIN mls_groups[c]
    /\ LET g == Group(c, id)
           member_kps == {m \in Members(g) : m \in clients}
           cm == NewCommit(g, c, Fresh(c, "commit"), {}, member_kps, FALSE)
           merged == MergePendingCommit([g EXCEPT !.pending = <<cm>>], c)
       IN  IF CommitFailure(g, c, cm, member_kps = {}) # ""
           THEN /\ lastOp' = Err("remove_members", c,
                                 CommitFailure(g, c, cm, member_kps = {}))
                /\ UNCHANGED <<mls_groups, ks_groups, network, nonce>>
           ELSE /\ mls_groups' = SetGroup(c, id, Saved(merged))
                /\ ks_groups' = MlsGroupPersist(c, id, merged)
                /\ network' = network \cup {cm}
                /\ nonce' = UseNonce(c, "commit")
                /\ lastOp' = Ok("remove_members", c, "commit")
    /\ UNCHANGED <<proteusVars, storage, memberVars, calls, configuration, ks_keypairs, credentials, callbacks, mls_client, ks_pending, ks_keypackages, kp_count, directory, now>>

\* reinit that does not propagate the failure of self_update and puts its commit
\* in the place of the pending one
Reinit_Overwrites(c, id) ==
    /\ id \in DOMAIN mls_groups[c]
    /\ LET g == Group(c, id)
           cm == NewCommit(g, c, Fresh(c, "commit"), {}, {}, FALSE)
       IN  /\ mls_groups' = SetGroup(c, id, [g EXCEPT !.pending = <<cm>>,
                                                      !.changed = TRUE])
           /\ network' = network \cup {cm}
           /\ nonce' = UseNonce(c, "commit")
           /\ lastOp' = Ok("reinit", c, "commit")
    /\ UNCHANGED <<proteusVars, storage, memberVars, calls, configuration, ks_keypairs, credentials, callbacks, mls_client, ks_groups, ks_pending, ks_keypackages, kp_count,
                   directory, now>>

\* MlsConversation::reinit: MlsGroup::self_update leaves its commit pending
Reinit(c, id) ==
    /\ id \in DOMAIN mls_groups[c]
    /\ LET g == Group(c, id)
           cm == NewCommit(g, c, Fresh(c, "commit"), {}, {}, FALSE)
       IN  IF CommitFailure(g, c, cm, FALSE) # ""
           THEN /\ lastOp' = Err("reinit", c, CommitFailure(g, c, cm, FALSE))
                /\ UNCHANGED <<mls_groups, network, nonce>>
           ELSE /\ mls_groups' = SetGroup(c, id, [g EXCEPT !.pending = <<cm>>,
                                                           !.changed = TRUE])
                /\ network' = network \cup {cm}
                /\ nonce' = UseNonce(c, "commit")
                /\ lastOp' = Ok("reinit", c, "commit")
    /\ UNCHANGED <<proteusVars, storage, memberVars, calls, configuration, ks_keypairs, credentials, callbacks, mls_client, ks_groups, ks_pending, ks_keypackages, kp_count,
                   directory, now>>

\* MlsGroup::create_message: the plaintext under the secret of the sender's
\* ratchet generation in the current epoch
CreateMessage(g, c, text) ==
    [type |-> "application", id |-> g.id, epoch |-> g.epoch, tx |-> g.tx,
     sender |-> c, gen |-> g.gen, text |-> text]

\* MlsConversation::encrypt_message
EncryptMessage(c, id, text) ==
    /\ id \in DOMAIN mls_groups[c]
    /\ LET g == Group(c, id)
           m == CreateMessage(g, c, text)
       IN  IF ~g.active \/ g.proposals # {}
           THEN /\ lastOp' = Err("encrypt_message", c,
                                 IF g.active THEN "PendingProposal" ELSE "UseAfterEviction")
                /\ UNCHANGED <<mls_groups, network>>
           ELSE /\ g.gen < MaxGen
                /\ mls_groups' = SetGroup(c, id, [g EXCEPT !.gen = g.gen + 1,
                                                           !.changed = TRUE])
                /\ network' = network \cup {m}
                /\ lastOp' = OkMsg("encrypt_message", c, m)
    /\ UNCHANGED <<proteusVars, storage, memberVars, calls, configuration, ks_keypairs, credentials, callbacks, mls_client, ks_groups, ks_pending, ks_keypackages, kp_count,
                   directory, nonce, now>>

Garbage == [type |-> "garbage"]

Fail(e) == [ok |-> FALSE, err |-> e]

\* the retained message secrets an application message of a past epoch needs
PastIndex(g, m) == {i \in DOMAIN g.past : g.past[i].epoch = m.epoch /\ g.past[i].tx = m.tx}

\* a processing that does not compare the epoch of a handshake message with
\* the epoch of the group
ProcessMessage_AnyEpoch(g, c, m) ==
    IF m.type \notin {"application", "proposal", "commit"} THEN Fail("InvalidMessage")
    ELSE IF ~g.active THEN Fail("UseAfterEviction")
    ELSE IF m.id # g.id THEN Fail("WrongGroupId")
    ELSE IF m.sender = c THEN Fail("OwnMessage")
    ELSE IF m.type = "application" THEN
        IF m.epoch = g.epoch THEN
            IF m.tx = g.tx /\ m.sender \in g.members
               /\ RatchetAccepts(g.used, m.sender, m.gen)
            THEN [ok |-> TRUE, kind |-> "application",
                  group |-> [g EXCEPT !.used = @ \cup {<<m.sender, m.gen>>},
                                      !.changed = TRUE]]
            ELSE Fail("DecryptionError")
        ELSE IF m.epoch < g.epoch /\ m.epoch + MaxPastEpochs >= g.epoch
                /\ PastIndex(g, m) # {} THEN
            LET i == CHOOSE j \in PastIndex(g, m) : TRUE
            IN  IF m.sender \in g.past[i].members
                   /\ RatchetAccepts(g.past[i].used, m.sender, m.gen)
                THEN [ok |-> TRUE, kind |-> "application",
                      group |-> [g EXCEPT !.past[i].used = @ \cup {<<m.sender, m.gen>>},
                                          !.changed = TRUE]]
                ELSE Fail("DecryptionError")
        ELSE Fail("WrongEpoch")
    ELSE IF m.tx # g.tx THEN Fail("VerificationError")
    ELSE IF m.type = "proposal" THEN
        IF m.sender \in g.members
        THEN [ok |-> TRUE, kind |-> "proposal", group |-> g]
        ELSE Fail("UnknownSender")
    ELSE IF ~(m.external \/ m.sender \in g.members) THEN Fail("UnknownSender")
    ELSE IF ~(m.props \subseteq g.proposals) THEN Fail("MissingProposal")
    ELSE [ok |-> TRUE, kind |-> "commit", group |-> g]

\* MlsGroup::parse_message and MlsGroup::process_unverified_message, as run by
\* the member c: the kind of the message and the group after its decryption
ProcessMessage(g, c, m) ==
    IF m.type \notin {"application", "proposal", "commit"} THEN Fail("InvalidMessage")
    ELSE IF ~g.active THEN Fail("UseAfterEviction")
    ELSE IF m.id # g.id THEN Fail("WrongGroupId")
    ELSE IF m.sender = c THEN Fail("OwnMessage")
    ELSE IF m.type = "application" THEN
        IF m.epoch = g.epoch THEN
            IF m.tx = g.tx /\ m.sender \in g.members
               /\ RatchetAccepts(g.used, m.sender, m.gen)
            THEN [ok |-> TRUE, kind |-> "application",
                  group |-> [g EXCEPT !.used = @ \cup {<<m.sender, m.gen>>},
                                      !.changed = TRUE]]
            ELSE Fail("DecryptionError")
        ELSE IF m.epoch < g.epoch /\ m.epoch + MaxPastEpochs >= g.epoch
                /\ PastIndex(g, m) # {} THEN
            LET i == CHOOSE j \in PastIndex(g, m) : TRUE
            IN  IF m.sender \in g.past[i].members
                   /\ RatchetAccepts(g.past[i].used, m.sender, m.gen)
                THEN [ok |-> TRUE, kind |-> "application",
                      group |-> [g EXCEPT !.past[i].used = @ \cup {<<m.sender, m.gen>>},
                                          !.changed = TRUE]]
                ELSE Fail("DecryptionError")
        ELSE Fail("WrongEpoch")
    ELSE IF m.epoch # g.epoch THEN Fail("WrongEpoch")
    ELSE IF m.tx # g.tx THEN Fail("VerificationError")
    ELSE IF m.type = "proposal" THEN
        IF m.sender \in g.members
        THEN [ok |-> TRUE, kind |-> "proposal", group |-> g]
        ELSE Fail("UnknownSender")
    ELSE IF ~(m.external \/ m.sender \in g.members) THEN Fail("UnknownSender")
    ELSE IF ~(m.props \subseteq g.proposals) THEN Fail("MissingProposal")
    ELSE [ok |-> TRUE, kind |-> "commit", group |-> g]

\* a decrypt_message that does not keep the proposals it is given
DecryptMessage_DropsProposal(c, id, m) ==
    /\ id \in DOMAIN mls_groups[c]
    /\ LET r == ProcessMessage(Group(c, id), c, m)
       IN  IF ~r.ok
           THEN /\ lastOp' = Err("decrypt_message", c, r.err)
                /\ UNCHANGED <<mls_groups, ks_groups>>
           ELSE IF r.kind = "application"
           THEN /\ mls_groups' = SetGroup(c, id, r.group)
                /\ lastOp' = Ok("decrypt_message", c, m.text)
                /\ UNCHANGED ks_groups
           ELSE LET g == IF r.kind = "proposal"
                         THEN r.group
                         ELSE MergeStagedCommit(r.group, m, c)
                IN  /\ IF g.changed
                       THEN /\ mls_groups' = SetGroup(c, id, Saved(g))
                            /\ ks_groups' = MlsGroupPersist(c, id, g)
                       ELSE /\ mls_groups' = SetGroup(c, id, g)
                            /\ UNCHANGED ks_groups
                    /\ lastOp' = Ok("decrypt_message", c, "none")
    /\ UNCHANGED <<proteusVars, storage, memberVars, calls, configuration, ks_keypairs, credentials, callbacks, mls_client, ks_pending, ks_keypackages, kp_count, directory,
                   network, nonce, now>>

\* MlsConversation::decrypt_message
DecryptMessage(c, id, m) ==
    /\ id \in DOMAIN mls_groups[c]
    /\ LET r == ProcessMessage(Group(c, id), c, m)
       IN  IF ~r.ok
           THEN /\ lastOp' = Err("decrypt_message", c, r.err)
                /\ UNCHANGED <<mls_groups, ks_groups>>
           ELSE IF r.kind = "application"
           THEN /\ mls_groups' = SetGroup(c, id, r.group)
                /\ lastOp' = Ok("decrypt_message", c, m.text)
                /\ UNCHANGED ks_groups
           ELSE LET g == IF r.kind = "proposal"
                         THEN [r.group EXCEPT !.proposals = @ \cup {m}, !.changed = TRUE]
                         ELSE MergeStagedCommit(r.group, m, c)
                IN  /\ IF g.changed
                       THEN /\ mls_groups' = SetGroup(c, id, Saved(g))
                            /\ ks_groups' = MlsGroupPersist(c, id, g)
                       ELSE /\ mls_groups' = SetGroup(c, id, g)
                            /\ UNCHANGED ks_groups
                    /\ lastOp' = Ok("decrypt_message", c, "none")
    /\ UNCHANGED <<proteusVars, storage, memberVars, calls, configuration, ks_keypairs, credentials, callbacks, mls_client, ks_pending, ks_keypackages, kp_count, directory,
                   network, nonce, now>>

\* MlsCentral::commit_accepted: the pending commit is merged and the group persisted
CommitAccepted(c, id) ==
    /\ id \in DOMAIN mls_groups[c]
    /\ Group(c, id).pending # <<>>
    /\ LET merged == MergePendingCommit(Group(c, id), c)
       IN  /\ mls_groups' = SetGroup(c, id, Saved(merged))
           /\ ks_groups' = MlsGroupPersist(c, id, merged)
    /\ lastOp' = Ok("commit_accepted", c, "none")
    /\ UNCHANGED <<proteusVars, storage, memberVars, calls, configuration, ks_keypairs, credentials, callbacks, mls_client, ks_pending, ks_keypackages, kp_count, directory,
                   network, nonce, now>>

\* MlsCentral::clear_pending_commit: the pending commit is dropped
ClearPendingCommit(c, id) ==
    /\ id \in DOMAIN mls_groups[c]
    /\ Group(c, id).pending # <<>>
    /\ mls_groups' = SetGroup(c, id, [Group(c, id) EXCEPT !.pending = <<>>,
                                                          !.changed = TRUE])
    /\ lastOp' = Ok("clear_pending_commit", c, "none")
    /\ UNCHANGED <<proteusVars, storage, memberVars, calls, configuration, ks_keypairs, credentials, callbacks, mls_client, ks_groups, ks_pending, ks_keypackages, kp_count,
                   directory, network, nonce, now>>

\* MlsCentral::new_proposal (remove): the proposal is queued locally and sent
NewProposal(c, id, target) ==
    /\ id \in DOMAIN mls_groups[c]
    /\ LET g == Group(c, id)
           p == [type |-> "proposal", id |-> g.id, epoch |-> g.epoch, tx |-> g.tx,
                 sender |-> c, pid |-> Fresh(c, "proposal"), kind |-> "remove",
                 target |-> target]
           queued == [g EXCEPT !.proposals = @ \cup {p}, !.changed = TRUE]
       IN  /\ IsOperational(g)
           /\ target \in g.members
           /\ mls_groups' = SetGroup(c, id, Saved(queued))
           /\ ks_groups' = MlsGroupPersist(c, id, queued)
           /\ network' = network \cup {p}
           /\ nonce' = UseNonce(c, "commit")
           /\ lastOp' = Ok("new_proposal", c, "proposal")
    /\ UNCHANGED <<proteusVars, storage, memberVars, calls, configuration, ks_keypairs, credentials, callbacks, mls_client, ks_pending, ks_keypackages, kp_count, directory, now>>

\* ---------------------------------------------------------- external commit
\* MlsGroup::join_by_external_commit: the joiner's group, still at the epoch of
\* the group info, with the external commit pending
ExternalGroup(c, gi) ==
    LET g == [id |-> gi.id, epoch |-> gi.epoch, tx |-> gi.tx, members |-> gi.members,
              leaves |-> gi.leaves, active |-> TRUE, pending |-> <<>>, proposals |-> {}, gen |-> 0,
              used |-> {}, past |-> <<>>, changed |-> TRUE]
        cm == WithCredentials(NewCommit(g, c, Fresh(c, "commit"), {c}, {}, TRUE),
                              [o \in {c} |-> credentials[c][1]])
    IN  [g EXCEPT !.pending = <<cm>>]

\* join_by_external_commit that leaves a pending row alone when there is one
JoinByExternalCommit_KeepsFirst(c, d, id) ==
    /\ id \in DOMAIN mls_groups[d]
    /\ mls_client[c]
    /\ LET g == ExternalGroup(c, PublicGroupState(Group(d, id)))
       IN  /\ ks_pending' = IF id \in DOMAIN ks_pending[c] THEN ks_pending
                             ELSE MlsPendingGroupsSave(c, id, g)
           /\ network' = network \cup {g.pending[1]}
           /\ nonce' = UseNonce(c, "commit")
           /\ lastOp' = Ok("join_by_external_commit", c, id)
    /\ UNCHANGED <<proteusVars, storage, memberVars, calls, configuration, ks_keypairs, credentials, callbacks, mls_client, mls_groups, ks_groups, ks_keypackages, kp_count,
                   directory, now>>

\* what the two authorization callbacks of a consumer answer
CallbackSettings ==
    [client_is_existing_group_user : BOOLEAN, user_authorize : BOOLEAN]

\* MlsCentral::callbacks: the consumer installs its callbacks
Callbacks(c, cb) ==
    /\ callbacks' = [callbacks EXCEPT ![c] = <<cb>>]
    /\ lastOp' = Ok("callbacks", c, "none")
    /\ UNCHANGED <<proteusVars, storage, memberVars, calls, configuration, ks_keypairs, credentials, mls_client, mls_groups, ks_groups, ks_pending, ks_keypackages,
                   kp_count, directory, network, nonce, now>>

\* MlsConversation::validate_external_commit: the error, "" when the commit is
\* let through, and the callbacks consulted, in order
ValidateExternalCommit(commit, sender, cbs) ==
    IF ~commit.external THEN [err |-> "", consulted |-> <<>>]
    ELSE IF cbs = <<>> THEN [err |-> "CallbacksNotSet", consulted |-> <<>>]
    ELSE IF sender = <<>> THEN [err |-> "UnauthorizedExternalCommit", consulted |-> <<>>]
    ELSE IF ~cbs[1].client_is_existing_group_user
    THEN [err |-> "UnauthorizedExternalCommit",
          consulted |-> <<"client_is_existing_group_user">>]
    ELSE IF ~cbs[1].user_authorize
    THEN [err |-> "UnauthorizedExternalCommit",
          consulted |-> <<"client_is_existing_group_user", "user_authorize">>]
    ELSE [err |-> "", consulted |-> <<"client_is_existing_group_user", "user_authorize">>]

\* MlsCentral::join_by_external_commit, with the group info a member d exports
JoinByExternalCommit(c, d, id) ==
    /\ id \in DOMAIN mls_groups[d]
    /\ IF ~mls_client[c]
       THEN /\ lastOp' = Err("join_by_external_commit", c, "MlsNotInitialized")
            /\ UNCHANGED <<ks_pending, network, nonce>>
       ELSE LET g == ExternalGroup(c, PublicGroupState(Group(d, id)))
            IN  /\ ks_pending' = MlsPendingGroupsSave(c, id, g)
                /\ network' = network \cup {g.pending[1]}
                /\ nonce' = UseNonce(c, "commit")
                /\ lastOp' = Ok("join_by_external_commit", c, id)
    /\ UNCHANGED <<proteusVars, storage, memberVars, calls, configuration, ks_keypairs, credentials, callbacks, mls_client, mls_groups, ks_groups, ks_keypackages, kp_count,
                   directory, now>>

\* MlsConversation::from_mls_group: the group is persisted under its id
FromMlsGroup(g) == [conversation |-> [group |-> Saved(g), admins |-> {}], row |-> Save(g)]

\* merge that skips merge_pending_commit: the group of the pending row goes to
\* the store as it was saved by the join
MergePendingGroupFromExternalCommit_Unmerged(c, id) ==
    /\ IF ~MlsPendingGroupsLoad(c, id).ok
       THEN /\ lastOp' = Err("merge_pending_group_from_external_commit", c,
                             MlsPendingGroupsLoad(c, id).err)
            /\ UNCHANGED <<mls_groups, ks_groups, ks_pending>>
       ELSE LET r == FromMlsGroup(Load(MlsPendingGroupsLoad(c, id).row[1]))
            IN  /\ ks_groups' = [ks_groups EXCEPT ![c] = Put(@, id, r.row)]
                /\ mls_groups' = Insert(c, id, r.conversation)
                /\ ks_pending' = MlsPendingGroupsDelete(c, id)
                /\ lastOp' = Ok("merge_pending_group_from_external_commit", c, id)
    /\ UNCHANGED <<proteusVars, storage, memberVars, calls, configuration, ks_keypairs, credentials, callbacks, mls_client, ks_keypackages, kp_count, directory, network, nonce, now>>

\* merge that puts the conversation in the store without persisting the group
MergePendingGroupFromExternalCommit_Unpersisted(c, id) ==
    /\ MlsPendingGroupsLoad(c, id).ok
    /\ LET r == FromMlsGroup(MergePendingCommit(Load(MlsPendingGroupsLoad(c, id).row[1]), c))
       IN  /\ mls_groups' = Insert(c, id, r.conversation)
           /\ ks_pending' = MlsPendingGroupsDelete(c, id)
           /\ lastOp' = Ok("merge_pending_group_from_external_commit", c, id)
    /\ UNCHANGED <<proteusVars, storage, memberVars, calls, configuration, ks_keypairs, credentials, callbacks, mls_client, ks_groups, ks_keypackages, kp_count, directory, network,
                   nonce, now>>

\* MlsCentral::merge_pending_group_from_external_commit
MergePendingGroupFromExternalCommit(c, id) ==
    /\ IF ~MlsPendingGroupsLoad(c, id).ok
       THEN /\ lastOp' = Err("merge_pending_group_from_external_commit", c,
                             MlsPendingGroupsLoad(c, id).err)
            /\ UNCHANGED <<mls_groups, ks_groups, ks_pending>>
       ELSE LET r == FromMlsGroup(MergePendingCommit(
                                      Load(MlsPendingGroupsLoad(c, id).row[1]), c))
            IN  /\ ks_groups' = [ks_groups EXCEPT ![c] = Put(@, id, r.row)]
                /\ mls_groups' = Insert(c, id, r.conversation)
                /\ ks_pending' = MlsPendingGroupsDelete(c, id)
                /\ lastOp' = Ok("merge_pending_group_from_external_commit", c, id)
    /\ UNCHANGED <<proteusVars, storage, memberVars, calls, configuration, ks_keypairs, credentials, callbacks, mls_client, ks_keypackages, kp_count, directory, network, nonce, now>>

\* the keystore calls of the merge that write: from_mls_group persists the
\* group, mls_pending_groups_delete removes the pending row
MergeSteps == {"persist", "delete"}

\* MlsCentral::merge_pending_group_from_external_commit when the keystore call
\* of the given step returns an error: the calls before it have taken effect
MergePendingGroupFromExternalCommitInterrupted(c, id, step) ==
    /\ MlsPendingGroupsLoad(c, id).ok
    /\ LET r == FromMlsGroup(MergePendingCommit(
                                 Load(MlsPendingGroupsLoad(c, id).row[1]), c))
       IN  IF step = "persist"
           THEN UNCHANGED <<mls_groups, ks_groups>>
           ELSE /\ ks_groups' = [ks_groups EXCEPT ![c] = Put(@, id, r.row)]
                /\ mls_groups' = Insert(c, id, r.conversation)
    /\ lastOp' = Err("merge_pending_group_from_external_commit", c, "KeyStoreError")
    /\ UNCHANGED <<proteusVars, storage, memberVars, calls, configuration, ks_keypairs, credentials, callbacks, mls_client, ks_pending, ks_keypackages, kp_count, directory,
                   network, nonce, now>>

\* clear that deletes no row
ClearPendingGroupFromExternalCommit_Keeps(c, id) ==
    /\ lastOp' = Ok("clear_pending_group_from_external_commit", c, id)
    /\ UNCHANGED <<proteusVars, storage, memberVars, calls, configuration, ks_keypairs, credentials, callbacks, mls_client, mls_groups, ks_groups, ks_pending, ks_keypackages,
                   kp_count, directory, network, nonce, now>>

\* MlsCentral::clear_pending_group_from_external_commit
ClearPendingGroupFromExternalCommit(c, id) ==
    /\ ks_pending' = MlsPendingGroupsDelete(c, id)
    /\ lastOp' = Ok("clear_pending_group_from_external_commit", c, id)
    /\ UNCHANGED <<proteusVars, storage, memberVars, calls, configuration, ks_keypairs, credentials, callbacks, mls_client, mls_groups, ks_groups, ks_keypackages, kp_count,
                   directory, network, nonce, now>>

\* ------------------------------------------------- keystore write that fails
\* MlsConversation::add_members when mls_group_persist returns an error: the
\* commit is merged and the group serialized before the write is tried, and
\* the error is returned through the ? of the keystore call
AddMembersInterrupted(c, id, kps) ==
    /\ id \in DOMAIN mls_groups[c]
    /\ LET g == Group(c, id)
           cm == WithCredentials(
                     NewCommit(g, c, Fresh(c, "commit"), {k.owner : k \in kps}, {}, FALSE),
                     KeyPackageCredentials(kps))
           merged == AddMembersGroup(g, cm, c)
       IN  /\ AddFailure(g, c, cm, kps) = ""
           /\ merged.changed
           /\ mls_groups' = SetGroup(c, id, Saved(merged))
    /\ nonce' = UseNonce(c, "commit")
    /\ lastOp' = Err("add_members", c, "KeyStoreError")
    /\ UNCHANGED <<proteusVars, storage, memberVars, calls, configuration, ks_keypairs, credentials, callbacks, mls_client,
                   ks_groups, ks_pending, ks_keypackages, kp_count, directory, network, now>>

\* MlsConversation::decrypt_message when mls_group_persist returns an error:
\* the proposal is stored or the commit merged, and the group serialized,
\* before the write is tried
DecryptMessageInterrupted(c, id, m) ==
    /\ id \in DOMAIN mls_groups[c]
    /\ LET r == ProcessMessage(Group(c, id), c, m)
       IN  /\ r.ok /\ r.kind # "application"
           /\ LET g == IF r.kind = "proposal"
                       THEN [r.group EXCEPT !.proposals = @ \cup {m}, !.changed = TRUE]
                       ELSE MergeStagedCommit(r.group, m, c)
              IN  /\ g.changed
                  /\ mls_groups' = SetGroup(c, id, Saved(g))
    /\ lastOp' = Err("decrypt_message", c, "KeyStoreError")
    /\ UNCHANGED <<proteusVars, storage, memberVars, calls, configuration, ks_keypairs, credentials, callbacks, mls_client,
                   ks_groups, ks_pending, ks_keypackages, kp_count, directory, network, nonce,
                   now>>

\* --------------------------------------------- calls that share a conversation
\* MlsConversation::add_members and remove_members take &self: threads that
\* share a conversation call them at once, and a call goes on from one
\* acquisition of the group lock to the next

\* the thread goes on to the next position of its call
Goes(t, pc) == [calls EXCEPT ![t].pc = pc]

\* the call of thread t returns: its messages go to the delivery service
Returns(t) ==
    /\ calls' = [calls EXCEPT ![t] = NoCall]
    /\ network' = network \cup calls[t].out
    /\ lastOp' = Ok(calls[t].op, calls[t].client,
                    IF calls[t].op = "add_members" THEN "welcome" ELSE "message")

\* add_members up to drop(group): under the write lock the commit is made and
\* merged, then the lock is released
AddMembersWriteGroup(t, c, id, kps) ==
    /\ calls[t].pc = "idle"
    /\ id \in DOMAIN mls_groups[c]
    /\ LET g == Group(c, id)
           cm == WithCredentials(
                     NewCommit(g, c, Fresh(c, "commit"), {k.owner : k \in kps}, {}, FALSE),
                     KeyPackageCredentials(kps))
       IN  IF AddFailure(g, c, cm, kps) # ""
           THEN /\ lastOp' = Err("add_members", c, AddFailure(g, c, cm, kps))
                /\ UNCHANGED <<calls, mls_groups, nonce>>
           ELSE /\ mls_groups' = SetGroup(c, id, AddMembersGroup(g, cm, c))
                /\ nonce' = UseNonce(c, "commit")
                /\ calls' = [calls EXCEPT ![t] =
                                [NoCall EXCEPT !.pc = "merged", !.op = "add_members",
                                               !.client = c, !.id = id,
                                               !.out = {cm, NewWelcome(g, cm, kps)}]]
                /\ UNCHANGED lastOp
    /\ UNCHANGED <<proteusVars, storage, memberVars, configuration, ks_keypairs, credentials, callbacks, mls_client, ks_groups,
                   ks_pending, ks_keypackages, kp_count, directory, network, now>>

\* remove_members, the members looked up under a read lock that is released
RemoveMembersReadGroup(t, c, id, clients) ==
    /\ calls[t].pc = "idle"
    /\ id \in DOMAIN mls_groups[c]
    /\ calls' = [calls EXCEPT ![t] =
                    [NoCall EXCEPT !.pc = "read", !.op = "remove_members", !.client = c,
                                   !.id = id,
                                   !.member_kps = {m \in Members(Group(c, id)) : m \in clients}]]
    /\ UNCHANGED <<proteusVars, storage, memberVars, configuration, ks_keypairs, credentials, callbacks, mls_client, mls_groups,
                   ks_groups, ks_pending, ks_keypackages, kp_count, directory, network, nonce,
                   now, lastOp>>

\* MlsGroup::remove_members refuses the reference of a key package that is not
\* of a member of the group
RemoveFailure(g, c, cm, member_kps) ==
    IF CommitFailure(g, c, cm, member_kps = {}) # ""
    THEN CommitFailure(g, c, cm, member_kps = {})
    ELSE IF ~(member_kps \subseteq Members(g)) THEN "UnknownMember"
    ELSE ""

\* remove_members from write_group to drop(group): under the write lock the
\* members looked up before are removed and the commit is merged
RemoveMembersWriteGroup(t) ==
    /\ calls[t].pc = "read"
    /\ LET c == calls[t].client
           id == calls[t].id
           g == Group(c, id)
           cm == NewCommit(g, c, Fresh(c, "commit"), {}, calls[t].member_kps, FALSE)
       IN  IF RemoveFailure(g, c, cm, calls[t].member_kps) # ""
           THEN /\ lastOp' = Err("remove_members", c,
                                 RemoveFailure(g, c, cm, calls[t].member_kps))
                /\ calls' = [calls EXCEPT ![t] = NoCall]
                /\ UNCHANGED <<mls_groups, nonce>>
           ELSE /\ mls_groups' = SetGroup(c, id,
                                          MergePendingCommit([g EXCEPT !.pending = <<cm>>], c))
                /\ nonce' = UseNonce(c, "commit")
                /\ calls' = [calls EXCEPT ![t].pc = "merged", ![t].out = {cm}]
                /\ UNCHANGED lastOp
    /\ UNCHANGED <<proteusVars, storage, memberVars, configuration, ks_keypairs, credentials, callbacks, mls_client, ks_groups,
                   ks_pending, ks_keypackages, kp_count, directory, network, now>>

\* self.read_group()?.state_changed() == Changed: the flag is read under a read
\* lock of its own; the call returns when the group needs no saving
StateChanged(t) ==
    /\ calls[t].pc = "merged"
    /\ IF Group(calls[t].client, calls[t].id).changed
       THEN /\ calls' = Goes(t, "changed")
            /\ UNCHANGED <<network, lastOp>>
       ELSE Returns(t)
    /\ UNCHANGED <<proteusVars, storage, memberVars, configuration, ks_keypairs, credentials, callbacks, mls_client, mls_groups,
                   ks_groups, ks_pending, ks_keypackages, kp_count, directory, nonce, now>>

\* self.write_group()?.save(&mut buf): the group as it is now is serialized
\* under a write lock of its own
WriteGroupSave(t) ==
    /\ calls[t].pc = "changed"
    /\ LET c == calls[t].client
           id == calls[t].id
       IN  /\ calls' = [calls EXCEPT ![t].pc = "saved", ![t].buf = <<Save(Group(c, id))>>]
           /\ mls_groups' = SetGroup(c, id, Saved(Group(c, id)))
    /\ UNCHANGED <<proteusVars, storage, memberVars, configuration, ks_keypairs, credentials, callbacks, mls_client, ks_groups,
                   ks_pending, ks_keypackages, kp_count, directory, network, nonce, now,
                   lastOp>>

\* mls_group_persist(&self.id, &buf): the buffer is written with no lock held,
\* and the call returns
MlsGroupPersistBuf(t) ==
    /\ calls[t].pc = "saved"
    /\ ks_groups' = [ks_groups EXCEPT ![calls[t].client] = Put(@, calls[t].id, calls[t].buf[1])]
    /\ Returns(t)
    /\ UNCHANGED <<proteusVars, storage, memberVars, configuration, ks_keypairs, credentials, callbacks, mls_client, mls_groups,
                   ks_pending, ks_keypackages, kp_count, directory, nonce, now>>

\* ------------------------------------------------------- end-to-end identity
\* e2ei_rotate, spec 4.4.2: a commit that updates the local leaf to a newly
\* issued X.509 credential; the credential is the most recent one of the
\* client before the commit is handed out, and the commit stays pending
E2eiRotate(c, id, cert) ==
    /\ id \in DOMAIN mls_groups[c]
    /\ LET g == Group(c, id)
           cm == WithCredentials(NewCommit(g, c, Fresh(c, "commit"), {}, {}, FALSE),
                                 [o \in {c} |-> cert])
       IN  IF CommitFailure(g, c, cm, FALSE) # ""
           THEN /\ lastOp' = Err("e2ei_rotate", c, CommitFailure(g, c, cm, FALSE))
                /\ UNCHANGED <<calls, configuration, ks_keypairs, credentials, mls_groups, network, nonce>>
           ELSE /\ credentials' = [credentials EXCEPT ![c] = <<cert>>]
                /\ mls_groups' = SetGroup(c, id, [g EXCEPT !.pending = <<cm>>,
                                                           !.changed = TRUE])
                /\ network' = network \cup {cm}
                /\ nonce' = UseNonce(c, "commit")
                /\ lastOp' = Ok("e2ei_rotate", c, "commit")
    /\ UNCHANGED <<proteusVars, storage, memberVars, calls, configuration, ks_keypairs, callbacks, mls_client, ks_groups, ks_pending, ks_keypackages, kp_count,
                   directory, now>>

\* CredentialExt::parse_leaf_cert: the certificate of an X.509 credential
ParseLeafCert(cred) == IF cred.type = "X509" THEN <<cred>> ELSE <<>>

\* WireIdentityReader::extract_identity succeeds
ExtractIdentity(cert) == cert.identity

\* is_time_valid that takes every certificate for current
IsTimeValid_Always(cert) == TRUE

\* X509Ext::is_time_valid: the clock is within the validity window
IsTimeValid(cert) == cert.not_before <= now /\ now <= cert.not_after

\* the closure of the fold of e2ei_conversation_state, applied to one member
FoldMember(acc, cred) ==
    IF ParseLeafCert(cred) # <<>>
    THEN LET cert == ParseLeafCert(cred)[1]
             invalid_identity == ~ExtractIdentity(cert)
             is_time_invalid == ~IsTimeValid(cert)
             is_invalid == invalid_identity \/ is_time_invalid
         IN  [state |-> IF is_invalid THEN "Degraded" ELSE acc.state,
              one_valid |-> acc.one_valid \/ ~is_invalid,
              all_expired |-> acc.all_expired /\ is_time_invalid]
    ELSE [state |-> "Degraded", one_valid |-> acc.one_valid, all_expired |-> FALSE]

\* the fold over the members of the group, in the order of their leaves
RECURSIVE FoldMembers(_, _)
FoldMembers(leaves, acc) ==
    IF leaves = <<>> THEN acc
    ELSE FoldMembers(Tail(leaves), FoldMember(acc, Head(leaves).cred))

\* the classification of the members given in leaves
Classify(leaves) ==
    LET acc == FoldMembers(leaves, [state |-> "Verified", one_valid |-> FALSE,
                                    all_expired |-> TRUE])
    IN  IF ~acc.one_valid /\ acc.all_expired THEN "Degraded"
        ELSE IF ~acc.one_valid THEN "NotEnabled"
        ELSE acc.state

\* a classification that counts the members the pending commit brings
E2eiConversationState_WithPending(g) ==
    IF g.pending = <<>> THEN Classify(g.leaves)
    ELSE Classify(MergeLeaves(g.leaves, g.pending[1]))

\* a classification that takes a group for verified as soon as one member is
E2eiConversationState_OneValid(g) ==
    IF \E i \in DOMAIN g.leaves :
           /\ ParseLeafCert(g.leaves[i].cred) # <<>>
           /\ ExtractIdentity(g.leaves[i].cred) /\ IsTimeValid(g.leaves[i].cred)
    THEN "Verified"
    ELSE Classify(g.leaves)

\* MlsConversation::e2ei_conversation_state
E2eiConversationState(g) == Classify(g.leaves)

\* MlsCentral::e2ei_conversation_state
MlsCentralE2eiConversationState(c, id) ==
    /\ IF id \notin DOMAIN mls_groups[c]
       THEN lastOp' = Err("e2ei_conversation_state", c, "ConversationNotFound")
       ELSE lastOp' = Ok("e2ei_conversation_state", c, E2eiConversationState(Group(c, id)))
    /\ UNCHANGED <<proteusVars, storage, memberVars, calls, configuration, ks_keypairs, credentials, callbacks, mls_client, mls_groups, ks_groups, ks_pending,
                   ks_keypackages, kp_count, directory, network, nonce, now>>

\* ------------------------------------------------------------------ restore
\* MlsCentral::restore_groups: every row of mls_groups_restore becomes a
\* conversation; try_insert of the group store is taken to succeed
RestoreGroups(c) == [id \in DOMAIN ks_groups[c] |-> FromSerializedState(ks_groups[c][id])]

\* MlsCentral::restore_from_disk, and MlsCentral::try_new on a closed central
RestoreFromDisk(c) ==
    /\ mls_groups' = [mls_groups EXCEPT ![c] = RestoreGroups(c)]
    /\ lastOp' = Ok("restore_from_disk", c, "none")
    /\ UNCHANGED <<proteusVars, storage, memberVars, calls, configuration, ks_keypairs, credentials, callbacks, mls_client, ks_groups, ks_pending, ks_keypackages, kp_count,
                   directory, network, nonce, now>>

\* ------------------------------------------------------------ configuration
\* str::trim_start and str::trim_end: white space is dropped at both ends
RECURSIVE TrimStart(_)
TrimStart(s) == IF s # <<>> /\ Head(s) = " " THEN TrimStart(Tail(s)) ELSE s

RECURSIVE TrimEnd(_)
TrimEnd(s) == IF s # <<>> /\ s[Len(s)] = " " THEN TrimEnd(SubSeq(s, 1, Len(s) - 1)) ELSE s

\* a trim that leaves the string as it is
Trim_Nothing(s) == s

\* str::trim
Trim(s) == TrimEnd(TrimStart(s))

\* str::is_empty, Vec::is_empty
IsEmpty(s) == Len(s) = 0

\* &seed[..EXPECTED_LEN]: the first EXPECTED_LEN bytes; the index panics when
\* the slice is shorter
SliceTo(seed, len) ==
    IF len <= Len(seed)
    THEN [panicked |-> FALSE, slice |-> SubSeq(seed, 1, len)]
    ELSE [panicked |-> TRUE, slice |-> <<>>]

\* EntropySeed::try_from_slice: a seed is made of exactly EXPECTED_LEN bytes
EntropySeedTryFromSlice(data) ==
    IF Len(data) = EXPECTED_LEN
    THEN [ok |-> TRUE, seed |-> <<data>>]
    ELSE [ok |-> FALSE, seed |-> <<>>]

\* the four things a call of MlsCentralConfiguration::try_new can come to
Accepted(cfg) == [ok |-> TRUE, err |-> "", panicked |-> FALSE, value |-> <<cfg>>]

MalformedIdentifier(field) ==
    [ok |-> FALSE, err |-> "MalformedIdentifier(" \o field \o ")", panicked |-> FALSE,
     value |-> <<>>]

Refused(e) == [ok |-> FALSE, err |-> e, panicked |-> FALSE, value |-> <<>>]

Panicked == [ok |-> FALSE, err |-> "", panicked |-> TRUE, value |-> <<>>]

\* MlsCentralConfiguration::try_new; client_id and entropy are options, the
\* empty sequence stands for None and <<x>> for Some(x)
MlsCentralConfigurationTryNew(store_path, identity_key, client_id, entropy) ==
    IF IsEmpty(Trim(store_path)) THEN MalformedIdentifier("store_path")
    ELSE IF IsEmpty(Trim(identity_key)) THEN MalformedIdentifier("identity_key")
    ELSE IF client_id # <<>> /\ IsEmpty(client_id[1]) THEN MalformedIdentifier("client_id")
    ELSE IF entropy = <<>>
         THEN Accepted([store_path |-> store_path, identity_key |-> identity_key,
                        client_id |-> client_id, external_entropy |-> <<>>])
         ELSE LET sliced == SliceTo(entropy[1], EXPECTED_LEN)
                  seed == EntropySeedTryFromSlice(sliced.slice)
              IN  IF sliced.panicked THEN Panicked
                  ELSE IF ~seed.ok THEN Refused("EntropySeedLengthError")
                  ELSE Accepted([store_path |-> store_path, identity_key |-> identity_key,
                                 client_id |-> client_id, external_entropy |-> seed.seed])

\* the application calls MlsCentralConfiguration::try_new and keeps what it
\* is given; a panic unwinds the call and gives nothing
TryNewConfiguration(store_path, identity_key, client_id, entropy) ==
    LET r == MlsCentralConfigurationTryNew(store_path, identity_key, client_id, entropy)
    IN  /\ configuration' = r.value
        /\ lastOp' = [Err("configuration_try_new", "none", r.err)
                         EXCEPT !.ok = r.ok,
                                !.out = IF r.panicked THEN "panic"
                                        ELSE IF r.ok THEN "configuration" ELSE "none"]
        /\ UNCHANGED <<proteusVars, storage, memberVars, calls, ks_keypairs, credentials, callbacks,
                       mls_client, mls_groups, ks_groups, ks_pending, ks_keypackages, kp_count,
                       directory, network, nonce, now>>

\* MlsCentral::try_new: the central of device c is made from the configuration,
\* which is moved into it; the keystore of the device is opened, the client is
\* initialised when a client_id is configured, the groups are restored
MlsCentralTryNew(c) ==
    /\ configuration # <<>>
    /\ LET cfg == configuration[1]
       IN  /\ mls_client' = [mls_client EXCEPT ![c] = cfg.client_id # <<>>]
           /\ credentials' = [credentials EXCEPT
                                 ![c] = IF cfg.client_id # <<>> THEN <<BasicCredential>>
                                        ELSE <<>>]
    /\ mls_groups' = [mls_groups EXCEPT ![c] = RestoreGroups(c)]
    /\ callbacks' = [callbacks EXCEPT ![c] = <<>>]
    /\ configuration' = <<>>
    /\ lastOp' = Ok("try_new", c, "none")
    /\ UNCHANGED <<proteusVars, storage, memberVars, calls, ks_keypairs, ks_groups, ks_pending, ks_keypackages, kp_count, directory,
                   network, nonce, now>>

\* time passes
Tick ==
    /\ now < MaxTime
    /\ now' = now + 1
    /\ lastOp' = NoOp
    /\ UNCHANGED <<proteusVars, storage, memberVars, calls, configuration, ks_keypairs, credentials, callbacks, mls_client, mls_groups, ks_groups, ks_pending, ks_keypackages,
                   kp_count, directory, network, nonce>>

\* ------------------------------------------------------------ specification
\* the key packages of other clients a caller can have fetched
Invitable(c) == {k \in directory : k.owner # c}

\* the application messages sent so far
Sent == Cardinality({m \in network : m.type = "application"})

\* a client may still make a commit on the conversation id held by c: the
\* commits made and the epoch reached stay within their bounds
CommitBudget(c, id) ==
    /\ CanFresh("commit")
    /\ id \in DOMAIN mls_groups[c]
    /\ Group(c, id).epoch < MaxEpoch

\* the life of conversations between clients that invite each other
Next ==
    \/ \E c \in Pair : MlsInit(c, BasicCredential)
    \/ \E c \in Pair : kp_count[c] < MaxPublished /\ GetOrCreateClientKeypackages(c, 1)
    \/ \E c \in Creators, id \in ConvIds : \E extra \in SUBSET Invitable(c) :
          NewConversation(c, id, extra, {c})
    \/ \E c \in Pair, w \in network : ProcessWelcomeMessage(c, w)
    \/ \E c \in Pair, id \in ConvIds : \E kps \in SUBSET Invitable(c) :
          CommitBudget(c, id) /\ AddMembers(c, id, kps)
    \/ \E c \in Pair, id \in ConvIds, clients \in {{i} : i \in Identities} :
          CommitBudget(c, id) /\ RemoveMembers(c, id, clients)
    \/ \E c \in Pair, id \in ConvIds : CommitBudget(c, id) /\ Reinit(c, id)
    \/ \E c \in Pair, id \in ConvIds, text \in Plaintexts :
          Sent < MaxSent /\ EncryptMessage(c, id, text)
    \/ \E c \in Pair, id \in ConvIds, m \in network \cup {Garbage} : DecryptMessage(c, id, m)
    \/ \E c \in Pair, id \in ConvIds : CommitAccepted(c, id)
    \/ \E c \in Pair, id \in ConvIds : ClearPendingCommit(c, id)
    \/ \E c \in Pair, id \in ConvIds, target \in Pair :
          CanFresh("commit") /\ NewProposal(c, id, target)
    \/ \E c \in Pair : RestoreFromDisk(c)

Spec == Init /\ [][Next]_vars

\* clients that join conversations by external commit, next to invitations
NextExternal ==
    \/ \E c \in Pair : MlsInit(c, BasicCredential)
    \/ \E c \in Pair : kp_count[c] < MaxPublished /\ GetOrCreateClientKeypackages(c, 1)
    \/ \E c \in Creators, id \in ConvIds : \E extra \in SUBSET Invitable(c) :
          NewConversation(c, id, extra, {c})
    \/ \E c \in Pair, w \in network : ProcessWelcomeMessage(c, w)
    \/ \E c \in Pair, d \in Pair, id \in ConvIds :
          c # d /\ CommitBudget(d, id) /\ JoinByExternalCommit(c, d, id)
    \/ \E c \in Pair, id \in ConvIds : MergePendingGroupFromExternalCommit(c, id)
    \/ \E c \in Pair, id \in ConvIds : ClearPendingGroupFromExternalCommit(c, id)
    \/ \E c \in Pair, id \in ConvIds, text \in Plaintexts :
          Sent < MaxSent /\ EncryptMessage(c, id, text)
    \/ \E c \in Pair, id \in ConvIds, m \in network \cup {Garbage} : DecryptMessage(c, id, m)
    \/ \E c \in Pair : RestoreFromDisk(c)

SpecExternal == Init /\ [][NextExternal]_vars

\* members of a conversation that exchange messages and restart
NextMessages ==
    \/ \E c \in Pair : MlsInit(c, BasicCredential)
    \/ \E c \in Pair : kp_count[c] < MaxPublished /\ GetOrCreateClientKeypackages(c, 1)
    \/ \E c \in Creators, id \in ConvIds : \E extra \in SUBSET Invitable(c) :
          NewConversation(c, id, extra, {c})
    \/ \E c \in Pair, w \in network : ProcessWelcomeMessage(c, w)
    \/ \E c \in Pair, id \in ConvIds, text \in Plaintexts : EncryptMessage(c, id, text)
    \/ \E c \in Pair, id \in ConvIds, m \in network \cup {Garbage} : DecryptMessage(c, id, m)
    \/ \E c \in Pair : RestoreFromDisk(c)

SpecMessages == Init /\ [][NextMessages]_vars

\* clients that fill their key-package pool while time passes and invitations
\* consume key packages
NextKP ==
    \/ \E c \in Pair : MlsInit(c, BasicCredential)
    \/ \E c \in Pair, n \in 1..MaxRequest : GetOrCreateClientKeypackages(c, n)
    \/ \E c \in Creators, id \in ConvIds : \E extra \in SUBSET Invitable(c) :
          NewConversation(c, id, extra, {c})
    \/ \E c \in Pair, w \in network : ProcessWelcomeMessage(c, w)
    \/ Tick

SpecKP == Init /\ [][NextKP]_vars

\* a joiner whose merge is interrupted by keystore errors and run again
NextRecovery ==
    \/ \E c \in Pair : MlsInit(c, BasicCredential)
    \/ \E c \in Creators, id \in ConvIds : NewConversation(c, id, {}, {c})
    \/ \E c \in Pair, d \in Pair, id \in ConvIds :
          c # d /\ CommitBudget(d, id) /\ JoinByExternalCommit(c, d, id)
    \/ \E c \in Pair, id \in ConvIds : MergePendingGroupFromExternalCommit(c, id)
    \/ \E c \in Pair, id \in ConvIds, step \in MergeSteps :
          MergePendingGroupFromExternalCommitInterrupted(c, id, step)
    \/ \E c \in Pair, id \in ConvIds, clients \in {{i} : i \in Pair} :
          CommitBudget(c, id) /\ RemoveMembers(c, id, clients)
    \/ \E c \in Pair, id \in ConvIds, text \in Plaintexts :
          Sent < MaxSent /\ EncryptMessage(c, id, text)
    \/ \E c \in Pair, id \in ConvIds, m \in network : DecryptMessage(c, id, m)
    \/ \E c \in Pair : RestoreFromDisk(c)

SpecRecovery == Init /\ [][NextRecovery]_vars

\* a member with or without authorization callbacks who receives the commits
\* of joiners and of members
NextCallbacks ==
    \/ \E c \in Pair : MlsInit(c, BasicCredential)
    \/ \E c \in Creators, cb \in CallbackSettings : Callbacks(c, cb)
    \/ \E c \in Creators, id \in ConvIds : NewConversation(c, id, {}, {c})
    \/ \E c \in Pair, d \in Pair, id \in ConvIds :
          c # d /\ CommitBudget(d, id) /\ JoinByExternalCommit(c, d, id)
    \/ \E c \in Pair, id \in ConvIds : MergePendingGroupFromExternalCommit(c, id)
    \/ \E c \in Pair, id \in ConvIds : CommitBudget(c, id) /\ Reinit(c, id)
    \/ \E c \in Pair, id \in ConvIds, m \in network : DecryptMessage(c, id, m)

SpecCallbacks == Init /\ [][NextCallbacks]_vars

\* a conversation of two members that goes through many epochs while messages
\* of earlier and later epochs arrive
NextEpochs ==
    \/ \E c \in Pair : MlsInit(c, BasicCredential)
    \/ \E c \in Pair : kp_count[c] < MaxPublished /\ GetOrCreateClientKeypackages(c, 1)
    \/ \E c \in Creators, id \in ConvIds : \E extra \in SUBSET Invitable(c) :
          NewConversation(c, id, extra, {c})
    \/ \E c \in Pair, w \in network : ProcessWelcomeMessage(c, w)
    \/ \E c \in Creators, id \in ConvIds :
          /\ id \in DOMAIN mls_groups[c]
          /\ Group(c, id).epoch < LastEpoch
          /\ Reinit(c, id)
    \/ \E c \in Creators, id \in ConvIds : CommitAccepted(c, id)
    \/ \E c \in Pair, id \in ConvIds, text \in Plaintexts :
          Sent < MaxSent /\ EncryptMessage(c, id, text)
    \/ \E c \in Pair, id \in ConvIds, m \in network : DecryptMessage(c, id, m)

SpecEpochs == Init /\ [][NextEpochs]_vars

\* three clients: one creates the conversation, invites and removes the others
NextInvite ==
    \/ \E c \in Clients : MlsInit(c, BasicCredential)
    \/ \E c \in Clients \ Creators :
          kp_count[c] < MaxPublished /\ GetOrCreateClientKeypackages(c, 1)
    \/ \E c \in Creators, id \in ConvIds : \E extra \in SUBSET Invitable(c) :
          NewConversation(c, id, extra, {c})
    \/ \E c \in Clients, w \in network : ProcessWelcomeMessage(c, w)
    \/ \E c \in Creators, id \in ConvIds : \E kps \in SUBSET Invitable(c) :
          CommitBudget(c, id) /\ AddMembers(c, id, kps)
    \/ \E c \in Creators, id \in ConvIds, clients \in SUBSET Identities :
          CommitBudget(c, id) /\ RemoveMembers(c, id, clients)
    \/ \E c \in Creators, id \in ConvIds : CommitBudget(c, id) /\ Reinit(c, id)
    \/ \E c \in Clients, id \in ConvIds, text \in Plaintexts :
          Sent < MaxSent /\ EncryptMessage(c, id, text)
    \/ \E c \in Clients, id \in ConvIds, m \in network : DecryptMessage(c, id, m)

SpecInvite == Init /\ [][NextInvite]_vars

\* clients with Basic and X.509 credentials in one conversation, while time
\* passes, members come and go and credentials are rotated
NextE2ei ==
    \/ \E c \in Pair, identifier \in ClientIdentifier : MlsInit(c, identifier)
    \/ \E c \in Pair \ Creators :
          kp_count[c] < MaxPublished /\ GetOrCreateClientKeypackages(c, 1)
    \/ \E c \in Creators, id \in ConvIds : \E extra \in SUBSET Invitable(c) :
          NewConversation(c, id, extra, {c})
    \/ \E c \in Pair, w \in network : ProcessWelcomeMessage(c, w)
    \/ \E c \in Creators, id \in ConvIds, cert \in Certificates :
          CommitBudget(c, id) /\ E2eiRotate(c, id, cert)
    \/ \E c \in Pair \ Creators, id \in ConvIds, target \in Pair :
          CanFresh("commit") /\ NewProposal(c, id, target)
    \/ \E c \in Creators, id \in ConvIds : CommitAccepted(c, id)
    \/ \E c \in Pair, id \in ConvIds, m \in network : DecryptMessage(c, id, m)
    \/ \E c \in Pair, id \in ConvIds : MlsCentralE2eiConversationState(c, id)
    \/ Tick

SpecE2ei == Init /\ [][NextE2ei]_vars

\* ------------------------------------------------------------------- epochs
\* the conversations of a client that a step keeps: the step is not one that
\* puts a new conversation under the id
Kept(c) ==
    IF lastOp'.client = c /\ lastOp'.ok
       /\ lastOp'.op \in {"new_conversation", "process_welcome_message",
                          "merge_pending_group_from_external_commit"}
    THEN {}
    ELSE DOMAIN mls_groups[c] \cap DOMAIN mls_groups'[c]

\* the step merges a commit into the conversation id of c: a commit made on the
\* state the group was in, and the group afterwards is that commit merged
MergesCommit(c, id) ==
    \E cm \in network' :
        /\ cm.type = "commit"
        /\ cm.id = id /\ cm.epoch = Group(c, id).epoch /\ cm.tx = Group(c, id).tx
        /\ Save(Group(c, id)') = Save(MergeStagedCommit(Group(c, id), cm, c))

EpochStep ==
    \A c \in Clients :
        /\ \A id \in Kept(c) :
              /\ Group(c, id)'.epoch >= Group(c, id).epoch
              /\ Group(c, id)'.epoch # Group(c, id).epoch =>
                    MergesCommit(c, id) /\ Group(c, id)'.epoch > Group(c, id).epoch
              /\ (lastOp' = Ok("add_members", c, "welcome") /\ Group(c, id).epoch = 0) =>
                    Group(c, id)'.epoch = 1
        /\ lastOp' = Ok("new_conversation", c, "none") =>
              \A id \in DOMAIN mls_groups'[c] :
                  (id \notin DOMAIN mls_groups[c] \/ mls_groups'[c][id] # mls_groups[c][id])
                      => Group(c, id)'.epoch = 0

\* C1: the epoch of a conversation never decreases, it changes only in a step
\* that merges a commit and is then strictly greater; a conversation created
\* alone is at epoch 0, and at epoch 1 once its first invitation is committed
C1_EpochMonotonic == [][EpochStep]_vars

\* an invitation into a conversation of epoch 0 was committed
C1_Witness ==
    /\ lastOp.op = "add_members" /\ lastOp.ok
    /\ \E id \in DOMAIN mls_groups[lastOp.client] : Group(lastOp.client, id).epoch = 1

\* ----------------------------------------------------------- pending commit
\* the step is a call by c of an operation that makes a commit in conversation id
LocalCommitCall(c, id) ==
    \/ \E kps \in SUBSET Invitable(c) : AddMembers(c, id, kps)
    \/ \E clients \in {{i} : i \in Identities} : RemoveMembers(c, id, clients)
    \/ Reinit(c, id)

AtMostOnePending ==
    \A c \in Clients : \A id \in DOMAIN mls_groups[c] : Len(Group(c, id).pending) <= 1

PendingBlocks ==
    \A c \in Clients, id \in ConvIds :
        (/\ id \in DOMAIN mls_groups[c]
         /\ Group(c, id).pending # <<>>
         /\ LocalCommitCall(c, id))
        => /\ ~lastOp'.ok
           /\ Group(c, id)'.pending = Group(c, id).pending
           /\ Group(c, id)'.epoch = Group(c, id).epoch
           /\ Members(Group(c, id)') = Members(Group(c, id))

\* C2: a conversation holds at most one pending commit, and add_members,
\* remove_members and reinit called while a commit is pending fail and leave
\* the pending commit, the epoch and the members as they were
C2_OnePendingCommit == []AtMostOnePending /\ [][PendingBlocks]_vars

\* a commit operation was refused because a commit is pending
C2_Witness ==
    /\ lastOp.op \in {"add_members", "remove_members", "reinit"}
    /\ lastOp.err = "PendingCommit"
    /\ \E id \in DOMAIN mls_groups[lastOp.client] :
          Len(Group(lastOp.client, id).pending) = 1

\* -------------------------------------------------------------- persistence
StateChangingOps ==
    {"new_conversation", "process_welcome_message", "add_members", "remove_members",
     "reinit", "encrypt_message", "decrypt_message",
     "merge_pending_group_from_external_commit"}

\* the row of conversation id of c is the serialization of the group in memory
Persisted(c, id) ==
    id \in DOMAIN ks_groups[c] /\ ks_groups[c][id] = Save(Group(c, id))

\* C3: when an operation that changes the group of a conversation has returned
\* success, the row under the conversation id is the serialization of the
\* group in memory
C3_PersistedOnSuccess ==
    (lastOp.ok /\ lastOp.op \in StateChangingOps) =>
        \A id \in DOMAIN mls_groups[lastOp.client] : Persisted(lastOp.client, id)

\* C4: a conversation of the store is persisted in the group partition at the
\* epoch it has in memory, or it is a pending external-commit group kept in the
\* pending-group partition
C4_StoreIsPersisted ==
    \A c \in Clients : \A id \in DOMAIN mls_groups[c] :
        \/ id \in DOMAIN ks_groups[c] /\ ks_groups[c][id].epoch = Group(c, id).epoch
        \/ id \in DOMAIN ks_pending[c] /\ ks_pending[c][id] = Save(Group(c, id))

\* a joiner has merged its external commit while another client holds the
\* conversation it created
C4_Witness ==
    /\ lastOp.op = "merge_pending_group_from_external_commit" /\ lastOp.ok
    /\ \E c \in Clients, d \in Clients, id \in ConvIds :
          /\ c # d
          /\ id \in DOMAIN mls_groups[c] /\ id \in DOMAIN mls_groups[d]
          /\ Group(c, id).epoch = 1

\* ------------------------------------------------------------------ restore
\* the members c and d hold conversation id in the same epoch of the same
\* history, and c is free to send
SameEpoch(c, d, id) ==
    /\ c # d
    /\ id \in DOMAIN mls_groups[c] /\ id \in DOMAIN mls_groups[d]
    /\ Group(c, id).active /\ Group(d, id).active
    /\ Group(c, id).epoch = Group(d, id).epoch /\ Group(c, id).tx = Group(d, id).tx
    /\ Group(c, id).proposals = {}

\* d decrypts the message c encrypts next in conversation id
CanTalkTo(c, d, id) ==
    \A text \in Plaintexts :
        LET r == ProcessMessage(Group(d, id), d, CreateMessage(Group(c, id), c, text))
        IN  r.ok /\ r.kind = "application"

RestoreStep ==
    \A c \in Clients :
        (/\ RestoreFromDisk(c)
         /\ \A id \in DOMAIN mls_groups[c] : Group(c, id).pending = <<>>)
        => /\ DOMAIN mls_groups'[c] = DOMAIN ks_groups[c]
           /\ \A id \in DOMAIN ks_groups[c] :
                 /\ Members(Group(c, id)') = ks_groups[c][id].members
                 /\ Group(c, id)'.epoch = ks_groups[c][id].epoch
                 /\ \A d \in Clients :
                       SameEpoch(c, d, id)' => CanTalkTo(c, d, id)' /\ CanTalkTo(d, c, id)'

\* C5: restoring the conversations of a central from its keystore gives, for
\* every group row, a conversation with the members and the epoch of the row,
\* which still exchanges messages with the other members; no row is left out
C5_RestoreKeepsConversations == [][RestoreStep]_vars

\* ---------------------------------------------------------------- messages
\* C6: a message encrypted by a member is decrypted to its plaintext, as an
\* application message, by every other member in the same epoch
C6_RoundTrip ==
    (lastOp.op = "encrypt_message" /\ lastOp.ok) =>
        \A d \in Clients :
            SameEpoch(lastOp.client, d, lastOp.msg[1].id) =>
                LET r == ProcessMessage(Group(d, lastOp.msg[1].id), d, lastOp.msg[1])
                IN  r.ok /\ r.kind = "application"

\* ---------------------------------------------------------- local commits
LocalCommitStep ==
    \A c \in Clients, id \in ConvIds :
        /\ (/\ id \in DOMAIN mls_groups[c]
            /\ Group(c, id).pending = <<>>
            /\ LocalCommitCall(c, id)
            /\ lastOp'.ok)
           => /\ Len(Group(c, id)'.pending) = 1
              /\ Group(c, id)'.epoch = Group(c, id).epoch
              /\ Members(Group(c, id)') = Members(Group(c, id))
              /\ ks_groups' = ks_groups
        /\ ClearPendingCommit(c, id)
           => /\ Group(c, id)'.pending = <<>>
              /\ Group(c, id)'.epoch = Group(c, id).epoch
              /\ Members(Group(c, id)') = Members(Group(c, id))
              /\ ks_groups' = ks_groups

\* C7: a local commit operation leaves its commit pending in memory, with the
\* epoch, the members and the persisted row as they were, and
\* clear_pending_commit drops the pending commit without changing them
C7_LocalCommitPending == [][LocalCommitStep]_vars

\* ------------------------------------------------------------- key packages
\* what every request of n key packages by c returns
RequestReturns(c, n) ==
    /\ Cardinality(lastOp'.kps) = n
    /\ \A kp \in lastOp'.kps : kp.owner = c /\ kp.not_after > now
    /\ lastOp'.kps \subseteq ks_keypackages'[c]
    /\ Cardinality(lastOp'.kps \ ks_keypackages[c]) =
           IF Cardinality({kp \in ks_keypackages[c] : ~Expired(kp)}) >= n THEN 0
           ELSE n - Cardinality({kp \in ks_keypackages[c] : ~Expired(kp)})

RequestStepOnce ==
    \A c \in Clients, n \in 1..MaxRequest :
        (GetOrCreateClientKeypackages(c, n) /\ lastOp'.ok) =>
            /\ RequestReturns(c, n)
            /\ lastOp'.kps \cap directory = {}

RequestStep ==
    \A c \in Clients, n \in 1..MaxRequest :
        (GetOrCreateClientKeypackages(c, n) /\ lastOp'.ok) =>
            /\ RequestReturns(c, n)
            /\ lastOp'.kps \cap directory \subseteq {kp \in ks_keypackages[c] : ~Expired(kp)}

JoinStep ==
    \A c \in Clients, d \in Clients, id \in ConvIds :
        JoinByExternalCommit(c, d, id) => mls_groups' = mls_groups

MergeStep ==
    \A c \in Clients, id \in ConvIds :
        (MergePendingGroupFromExternalCommit(c, id) /\ lastOp'.ok) =>
            /\ id \in DOMAIN mls_groups'[c]
            /\ c \in Members(Group(c, id)')
            /\ id \notin DOMAIN ks_pending'[c]
            /\ id \in DOMAIN ks_groups'[c]
            /\ FromSerializedState(ks_groups'[c][id]).group = Group(c, id)'
            /\ \A d \in Clients :
                  SameEpoch(c, d, id)' =>
                      /\ Cardinality(Members(Group(c, id)')) =
                             Cardinality(Members(Group(d, id)'))
                      /\ CanTalkTo(c, d, id)' /\ CanTalkTo(d, c, id)'

\* the members that hold a conversation in the same epoch of the same history
\* count the same members
MembersAgree ==
    \A c \in Clients, d \in Clients, id \in ConvIds :
        SameEpoch(c, d, id) =>
            Cardinality(Members(Group(c, id))) = Cardinality(Members(Group(d, id)))

MissingPendingGroup(c) ==
    Err("merge_pending_group_from_external_commit", c, "MissingKeyInStore(MlsPendingGroup)")

ClearStep ==
    \A c \in Clients, id \in ConvIds :
        /\ ClearPendingGroupFromExternalCommit(c, id)
           => /\ id \notin DOMAIN ks_pending'[c]
              /\ mls_groups' = mls_groups /\ ks_groups' = ks_groups
        /\ (MergePendingGroupFromExternalCommit(c, id) /\ id \notin DOMAIN ks_pending[c])
           => /\ lastOp' = MissingPendingGroup(c)
              /\ mls_groups' = mls_groups /\ ks_groups' = ks_groups
              /\ ks_pending' = ks_pending

\* C10: clear_pending_group_from_external_commit leaves no pending row for the
\* id, and a merge for an id without pending row, cleared or never joined,
\* fails with the missing-key error of the pending groups and changes neither
\* the store nor the group partition
C10_ClearedJoin == [][ClearStep]_vars

\* a client joined by external commit, cleared the join and was refused the merge
C10_Witness ==
    /\ lastOp.op = "merge_pending_group_from_external_commit"
    /\ lastOp.err = "MissingKeyInStore(MlsPendingGroup)"
    /\ \E cm \in network :
          /\ cm.type = "commit" /\ cm.external /\ cm.sender = lastOp.client
          /\ cm.id \notin DOMAIN ks_pending[lastOp.client]
          /\ cm.id \notin DOMAIN mls_groups[lastOp.client]

\* ------------------------------------------------------------ join retries
\* the external commits c has sent to join conversation id
ExternalCommitsOf(c, id) ==
    {cm \in network : cm.type = "commit" /\ cm.external /\ cm.sender = c /\ cm.id = id}

\* the pending row of a conversation holds the external commit of the most
\* recent join
PendingIsLatest ==
    \A c \in Clients : \A id \in DOMAIN ks_pending[c] :
        /\ Len(ks_pending[c][id].pending) = 1
        /\ ks_pending[c][id].pending[1] \in ExternalCommitsOf(c, id)
        /\ \A cm \in ExternalCommitsOf(c, id) :
              cm.cid.n <= ks_pending[c][id].pending[1].cid.n

RetryStep ==
    \A c \in Clients, id \in ConvIds :
        /\ \A d \in Clients :
              (JoinByExternalCommit(c, d, id) /\ mls_client[c]) =>
                  /\ lastOp' = Ok("join_by_external_commit", c, id)
                  /\ DOMAIN ks_pending'[c] = DOMAIN ks_pending[c] \cup {id}
                  /\ ks_pending'[c][id].pending[1] \in network' \ network
        /\ (MergePendingGroupFromExternalCommit(c, id) /\ lastOp'.ok) =>
              /\ Group(c, id)'.tx = ks_pending[c][id].pending[1].cid
              /\ Group(c, id)'.epoch = ks_pending[c][id].pending[1].epoch + 1
              /\ \A d \in Clients :
                    SameEpoch(c, d, id)' => CanTalkTo(c, d, id)' /\ CanTalkTo(d, c, id)'

\* C11: every join_by_external_commit succeeds, with or without a pending row,
\* and leaves one pending row for the id that holds the commit of this call;
\* the merge merges the commit of the most recent join, and the merged group
\* exchanges messages with the members who accepted that commit
C11_JoinRetriable == []PendingIsLatest /\ [][RetryStep]_vars

\* a client joined twice, merged, and a member accepted the commit of its
\* second join
C11_Witness ==
    /\ lastOp.op = "merge_pending_group_from_external_commit" /\ lastOp.ok
    /\ Cardinality(ExternalCommitsOf(lastOp.client, lastOp.out)) = 2
    /\ \E d \in Clients : SameEpoch(lastOp.client, d, lastOp.out)

\* ---------------------------------------------------------- merge recovery
\* the group g is the merge of the pending row, or has moved on from it
Descends(g, row) ==
    /\ row.pending # <<>>
    /\ \/ g.tx = row.pending[1].cid
       \/ \E i \in DOMAIN g.past : g.past[i].tx = row.pending[1].cid

MergeRecoveryStep ==
    \A c \in Clients, id \in ConvIds :
        (/\ MergePendingGroupFromExternalCommit(c, id)
         /\ id \in DOMAIN ks_pending[c]
         /\ id \in DOMAIN ks_groups[c]
         /\ Descends(ks_groups[c][id], ks_pending[c][id]))
        => /\ lastOp'.ok
           /\ id \notin DOMAIN ks_pending'[c]
           /\ ks_groups'[c][id] = ks_groups[c][id]
           /\ id \in DOMAIN mls_groups[c] => Save(Group(c, id)') = Save(Group(c, id))

\* C12: the merge moves the group from the pending partition to the group
\* partition in one piece, so that no merged group is ever found next to its
\* pending row; or else a merge run again in such a state succeeds, removes
\* the pending row and leaves the merged group, with the progress it has made
\* since, as it is
C12_MergeAtomicOrIdempotent == [][MergeRecoveryStep]_vars

\* ------------------------------------------------- inbound external commits
ExternalCommitStep ==
    \A c \in Clients, id \in ConvIds, m \in network :
        (/\ DecryptMessage(c, id, m)
         /\ m.type = "commit"
         /\ ProcessMessage(Group(c, id), c, m).ok)
        => LET v == ValidateExternalCommit(m, <<m.sender>>, callbacks[c])
           IN  /\ v.err = "" => lastOp'.ok /\ Group(c, id)'.epoch = Group(c, id).epoch + 1
               /\ v.err # "" =>
                     /\ lastOp' = Err("decrypt_message", c, v.err)
                     /\ Members(Group(c, id)') = Members(Group(c, id))
                     /\ Group(c, id)'.epoch = Group(c, id).epoch
               /\ ~m.external => v.err = "" /\ v.consulted = <<>>
               /\ (m.external /\ callbacks[c] = <<>>) => v.err = "CallbacksNotSet"
               /\ (m.external /\ callbacks[c] # <<>>) =>
                     /\ v.consulted[1] = "client_is_existing_group_user"
                     /\ ~callbacks[c][1].client_is_existing_group_user =>
                           v.consulted = <<"client_is_existing_group_user">>
                     /\ v.err = "" <=> /\ callbacks[c][1].client_is_existing_group_user
                                       /\ callbacks[c][1].user_authorize
                     /\ v.err \in {"", "UnauthorizedExternalCommit"}

\* C13: a member merges the external commit of a joiner only when its callbacks
\* are installed and client_is_existing_group_user and then user_authorize
\* answer true; without callbacks decrypt_message fails with CallbacksNotSet,
\* with a false answer it fails with UnauthorizedExternalCommit, and in both
\* cases the members and the epoch stay; other commits consult no callback
C13_ExternalCommitAuthorized == [][ExternalCommitStep]_vars

\* ------------------------------------------------------------- past epochs
Min(a, b) == IF a < b THEN a ELSE b

\* a member keeps the message secrets of the epochs it has been through, the
\* last MaxPastEpochs of them at most: the creator since epoch 0, an invitee
\* since the epoch of its welcome
RetainedEpochs ==
    \A c \in Clients : \A id \in DOMAIN mls_groups[c] :
        LET g == Group(c, id)
        IN  /\ Len(g.past) <= MaxPastEpochs
            /\ \A i \in DOMAIN g.past : g.past[i].epoch = g.epoch - Len(g.past) + i - 1
            /\ c \in Creators => Len(g.past) = Min(MaxPastEpochs, g.epoch)
            /\ \A w \in network :
                  (w.type = "welcome" /\ w.id = id /\ c \in w.members /\ c \notin Creators)
                      => Len(g.past) = Min(MaxPastEpochs, g.epoch - w.epoch)

\* the member holds the secrets of the epoch m was encrypted in, and has not
\* used the one of m
Retains(g, m) ==
    \E i \in DOMAIN g.past :
        /\ g.past[i].epoch = m.epoch /\ g.past[i].tx = m.tx
        /\ <<m.sender, m.gen>> \notin g.past[i].used

PastEpochStep ==
    \A c \in Clients, id \in ConvIds, m \in network :
        (/\ DecryptMessage(c, id, m)
         /\ m.type = "application" /\ m.id = id /\ m.sender # c
         /\ Group(c, id).active)
        => LET g == Group(c, id)
           IN  /\ (m.epoch > g.epoch \/ m.epoch + MaxPastEpochs < g.epoch) =>
                     /\ lastOp' = Err("decrypt_message", c, "WrongEpoch")
                     /\ mls_groups' = mls_groups /\ ks_groups' = ks_groups
               /\ (m.epoch < g.epoch /\ m.epoch + MaxPastEpochs >= g.epoch
                   /\ Retains(g, m)) =>
                     /\ lastOp' = Ok("decrypt_message", c, m.text)
                     /\ Group(c, id)'.epoch = g.epoch
                     /\ Members(Group(c, id)') = Members(g)

NewWelcomes == {w \in network' \ network : w.type = "welcome"}

NewCommits == {cm \in network' \ network : cm.type = "commit"}

\* the group is free to encrypt
CanEncrypt(g) == g.active /\ g.proposals = {}

CreateStep ==
    \A c \in Clients, id \in ConvIds :
        /\ \A extra \in SUBSET Invitable(c) :
              (NewConversation(c, id, extra, {c}) /\ lastOp'.ok) =>
                  /\ lastOp'.out = "welcome" <=> extra # {}
                  /\ Cardinality(NewWelcomes) = IF extra = {} THEN 0 ELSE 1
                  /\ \A w \in NewWelcomes :
                        /\ w.id = id /\ w.kps = extra
                        /\ w.members = Members(Group(c, id)')
                        /\ w.epoch = Group(c, id)'.epoch
                  /\ extra = {} => Members(Group(c, id)') = {c}
                  /\ Cardinality(Members(Group(c, id)')) = Cardinality(extra) + 1
                  /\ Group(c, id)'.pending = <<>>
                  /\ CanEncrypt(Group(c, id)')
                  /\ Persisted(c, id)'
        /\ \A w \in network :
              (/\ ProcessWelcomeMessage(c, w)
               /\ \E k \in w.kps : k.owner = c /\ k \in ks_keypackages[c])
              => /\ lastOp'.ok
                 /\ Members(Group(c, w.id)') = w.members
                 /\ Group(c, w.id)'.epoch = w.epoch

\* C15: create returns a welcome exactly when there are extra members; alone,
\* the creator is the only member and can encrypt; with N extra members there
\* is one welcome for all N, the commit is merged when create returns, the
\* members are N+1, the group is persisted under the id, and every invitee
\* joins from that welcome
C15_CreateWelcome == [][CreateStep]_vars

\* two invitees joined from the one welcome of a creation
C15_Witness ==
    /\ lastOp.op = "process_welcome_message" /\ lastOp.ok
    /\ \A c \in Creators : nonce[c].commit = 0
    /\ \E w \in network :
          /\ w.type = "welcome" /\ Cardinality(w.kps) = 2
          /\ \A k \in w.kps :
                /\ w.id \in DOMAIN mls_groups[k.owner]
                /\ Cardinality(Members(Group(k.owner, w.id))) = 3

\* ----------------------------------------------------------------- welcomes
\* the key packages of c a welcome is addressed to
KeyPackagesFor(c, w) == {k \in w.kps : k.owner = c}

WelcomeStep ==
    \A c \in Clients :
        /\ \A w \in network :
              ProcessWelcomeMessage(c, w) =>
                  IF lastOp'.ok
                  THEN /\ lastOp'.out = w.id
                       /\ Group(c, w.id)'.id = w.id
                       /\ \E k \in KeyPackagesFor(c, w) :
                             /\ k \in ks_keypackages[c]
                             /\ ks_keypackages'[c] = ks_keypackages[c] \ {k}
                       /\ KeyPackagesFor(c, w) \cap ks_keypackages'[c] = {}
                  ELSE /\ lastOp'.err = "NoMatchingKeyPackage"
                       /\ KeyPackagesFor(c, w) \cap ks_keypackages[c] = {}
                       /\ mls_groups' = mls_groups /\ ks_groups' = ks_groups
                       /\ ks_keypackages' = ks_keypackages
        /\ \A k \in directory :
              (k.owner = c /\ k \notin ks_keypackages[c]) => k \notin ks_keypackages'[c]

\* C16: joining from a welcome gives a conversation under the group id of the
\* welcome and deletes the key package the welcome was addressed to; the same
\* welcome processed again finds no key package and fails, and a key package
\* once deleted never comes back
C16_WelcomeConsumesKeyPackage == [][WelcomeStep]_vars

\* a client that joined from a welcome processed it again and was refused
C16_Witness ==
    /\ lastOp.op = "process_welcome_message" /\ lastOp.err = "NoMatchingKeyPackage"
    /\ \E w \in network :
          /\ w.type = "welcome"
          /\ KeyPackagesFor(lastOp.client, w) # {}
          /\ w.id \in DOMAIN mls_groups[lastOp.client]

\* -------------------------------------------------------------- add_members
AddStep ==
    \A c \in Clients, id \in ConvIds :
        /\ \A kps \in SUBSET Invitable(c) :
              (id \in DOMAIN mls_groups[c] /\ AddMembers(c, id, kps)) =>
                  IF lastOp'.ok
                  THEN /\ Cardinality(NewCommits) = 1 /\ Cardinality(NewWelcomes) = 1
                       /\ Cardinality(network' \ network) = 2
                       /\ Cardinality(Members(Group(c, id)')) =
                              Cardinality(Members(Group(c, id))) + Cardinality(kps)
                       /\ \A w \in NewWelcomes :
                             w.kps = kps /\ w.members = Members(Group(c, id)')
                  ELSE /\ Members(Group(c, id)') = Members(Group(c, id))
                       /\ Group(c, id)'.epoch = Group(c, id).epoch
                       /\ network' = network
        /\ \A w \in network :
              (ProcessWelcomeMessage(c, w) /\ lastOp'.ok) =>
                  Members(Group(c, w.id)') = w.members

\* C17: add_members on a conversation of k members hands out one commit and
\* one welcome, after which the sender and every invitee that processes the
\* welcome count k + len(members) members; a failing add_members leaves the
\* members and the epoch as they were
C17_AddMembers == [][AddStep]_vars

\* two clients added in one call joined from its welcome
C17_Witness ==
    /\ lastOp.op = "process_welcome_message" /\ lastOp.ok
    /\ \E w \in network :
          /\ w.type = "welcome" /\ Cardinality(w.kps) = 2 /\ w.tx.n > 1
          /\ Cardinality(w.members) = 3
          /\ Members(Group(lastOp.client, w.id)) = w.members

\* ----------------------------------------------------------- remove_members
RemoveStep ==
    \A c \in Clients, id \in ConvIds, clients \in SUBSET Identities :
        (id \in DOMAIN mls_groups[c] /\ RemoveMembers(c, id, clients)) =>
            /\ NewWelcomes = {}
            /\ lastOp'.ok => clients \subseteq Members(Group(c, id))
            /\ ~lastOp'.ok =>
                  /\ NewCommits = {}
                  /\ Members(Group(c, id)') = Members(Group(c, id))
                  /\ Group(c, id)'.epoch = Group(c, id).epoch

\* C18: remove_members fails, without a commit and with the members and the
\* epoch unchanged, as soon as one listed client is not a member; it succeeds
\* only when all listed clients are members, and never hands out a welcome
C18_RemoveAllOrNothing == [][RemoveStep]_vars

\* ------------------------------------------------------------------ removal
\* a client that is no member of its copy of a conversation holds it as unusable
Evicted ==
    \A c \in Clients : \A id \in DOMAIN mls_groups[c] :
        c \notin Members(Group(c, id)) => ~Group(c, id).active

RemovalStep ==
    \A c \in Clients, id \in ConvIds :
        id \in DOMAIN mls_groups[c] =>
            /\ \A clients \in SUBSET Identities :
                  (RemoveMembers(c, id, clients) /\ lastOp'.ok) =>
                      /\ Members(Group(c, id)') \cap clients = {}
                      /\ c \in Members(Group(c, id)')
                      /\ CanEncrypt(Group(c, id)')
            /\ \A text \in Plaintexts :
                  EncryptMessage(c, id, text) =>
                      /\ lastOp'.ok <=> CanEncrypt(Group(c, id))
                      /\ c \notin Members(Group(c, id)) =>
                            lastOp' = Err("encrypt_message", c, "UseAfterEviction")
            /\ \A m \in network :
                  (/\ DecryptMessage(c, id, m) /\ lastOp'.ok
                   /\ m.type = "commit" /\ c \in Removed(m))
                  => c \notin Members(Group(c, id)') /\ ~Group(c, id)'.active

\* C19: after a successful remove_members the remover no longer counts the
\* removed clients among the members and can still encrypt; once a removed
\* client has processed the commit that removes it, every encrypt_message on
\* its copy of the conversation fails
C19_RemovedCannotEncrypt == []Evicted /\ [][RemovalStep]_vars

\* a removed client processed its removal and was refused encrypt_message,
\* while the remover holds the conversation without it
C19_Witness ==
    /\ lastOp.op = "encrypt_message" /\ lastOp.err = "UseAfterEviction"
    /\ \E id \in DOMAIN mls_groups[lastOp.client], d \in Clients :
          /\ lastOp.client \notin Members(Group(lastOp.client, id))
          /\ d # lastOp.client /\ id \in DOMAIN mls_groups[d]
          /\ Members(Group(d, id)) = Members(Group(lastOp.client, id))
          /\ CanEncrypt(Group(d, id))

\* ----------------------------------------------------------- decrypt results
\* what decrypt_message returns for a message of the given kind: the plaintext
\* of an application message, nothing for a proposal and for a commit
Returned(kind, m) == IF kind = "application" THEN m.text ELSE "none"

DecryptResultStep ==
    \A c \in Clients, id \in ConvIds, m \in network :
        (id \in DOMAIN mls_groups[c] /\ DecryptMessage(c, id, m) /\ lastOp'.ok) =>
            LET r == ProcessMessage(Group(c, id), c, m)
            IN  /\ lastOp'.out = Returned(r.kind, m)
                /\ \A m2 \in network :
                      LET r2 == ProcessMessage(Group(c, id), c, m2)
                      IN  (r2.ok /\ r2.kind # r.kind) =>
                              Returned(r2.kind, m2) # lastOp'.out

\* C20: the result of a successful decrypt_message tells which case occurred:
\* no message of another kind that the conversation accepts in the same state
\* gives the same result
C20_DecryptIdentifiesCase == [][DecryptResultStep]_vars

\* ------------------------------------------------------- duplicate commits
\* m is the commit that produced the epoch the group is in
ProducedEpoch(g, m) == m.type = "commit" /\ m.id = g.id /\ m.cid = g.tx

DuplicateCommitStep ==
    \A c \in Clients, id \in ConvIds, m \in network \cup {Garbage} :
        (id \in DOMAIN mls_groups[c] /\ DecryptMessage(c, id, m)) =>
            IF ProducedEpoch(Group(c, id), m)
            THEN /\ lastOp' = Ok("decrypt_message", c, "none")
                 /\ mls_groups' = mls_groups /\ ks_groups' = ks_groups
            ELSE ~ProcessMessage(Group(c, id), c, m).ok =>
                     /\ ~lastOp'.ok /\ lastOp'.err # ""
                     /\ mls_groups' = mls_groups /\ ks_groups' = ks_groups

\* C21: decrypt_message given again the commit that produced the current epoch
\* of the conversation returns a result without error and leaves the group in
\* memory and its row as they were; every other message it cannot process is
\* answered with an error value
C21_DuplicateCommitNoOp == [][DuplicateCommitStep]_vars

\* ------------------------------------------------------ conversation state
\* the credentials of the members of a group
Creds(g) == {g.leaves[i].cred : i \in DOMAIN g.leaves}

\* the three kinds of member of the classifier: basic, valid, invalid
IsBasic(cred) == cred.type = "Basic"

IsValid(cred) ==
    cred.type = "X509" /\ cred.identity /\ cred.not_before <= now /\ now <= cred.not_after

IsInvalid(cred) == cred.type = "X509" /\ ~IsValid(cred)

\* the group with its members listed in every order
Reorderings(g) ==
    {[g EXCEPT !.leaves = [i \in DOMAIN g.leaves |-> g.leaves[p[i]]]] :
        p \in Permutations(DOMAIN g.leaves)}

\* two clients hold the conversation in the same epoch of the same history
SameState(c, d, id) ==
    /\ id \in DOMAIN mls_groups[c] /\ id \in DOMAIN mls_groups[d]
    /\ Group(c, id).epoch = Group(d, id).epoch /\ Group(c, id).tx = Group(d, id).tx

\* the leaves of a group are the leaves of its members
LeavesOfMembers ==
    \A c \in Clients : \A id \in DOMAIN mls_groups[c] :
        /\ Owners(Group(c, id).leaves) = Members(Group(c, id))
        /\ Len(Group(c, id).leaves) = Cardinality(Members(Group(c, id)))

UniformState ==
    \A c \in Clients : \A id \in DOMAIN mls_groups[c] :
        LET g == Group(c, id)
        IN  /\ (\A cred \in Creds(g) : IsBasic(cred)) =>
                   E2eiConversationState(g) = "NotEnabled"
            /\ (\A cred \in Creds(g) : IsValid(cred)) <=>
                   E2eiConversationState(g) = "Verified"
            /\ \A d \in Clients :
                  SameState(c, d, id) =>
                      E2eiConversationState(Group(d, id)) = E2eiConversationState(g)
            /\ (lastOp.op = "e2ei_conversation_state" /\ lastOp.client = c) =>
                   lastOp = Ok("e2ei_conversation_state", c, E2eiConversationState(g))

\* C22: e2ei_conversation_state returns NotEnabled when every member is Basic
\* and Verified when every member holds an X.509 certificate with extractable
\* identity inside its validity window, and only then; the members who hold
\* the conversation in the same epoch compute the same value
C22_UniformConversation == LeavesOfMembers /\ UniformState

\* both members of a conversation of X.509 clients are told Verified
C22_Witness ==
    /\ lastOp.op = "e2ei_conversation_state" /\ lastOp.out = "Verified"
    /\ \E d \in Clients, id \in ConvIds :
          /\ d # lastOp.client /\ SameState(lastOp.client, d, id)
          /\ Members(Group(d, id)) = {lastOp.client, d}
          /\ E2eiConversationState(Group(d, id)) = "Verified"

\* a group with a valid member and a member that is not valid
IsMixed(g) == (\E cred \in Creds(g) : IsValid(cred)) /\ (\E cred \in Creds(g) : ~IsValid(cred))

DegradedWhenMixed ==
    \A c \in Clients : \A id \in DOMAIN mls_groups[c] :
        IsMixed(Group(c, id)) =>
            \A r \in Reorderings(Group(c, id)) : E2eiConversationState(r) = "Degraded"

ExpiryStep ==
    \A c \in Clients, id \in ConvIds :
        (/\ Tick
         /\ id \in DOMAIN mls_groups[c]
         /\ E2eiConversationState(Group(c, id)) = "Verified"
         /\ \E cred \in Creds(Group(c, id)) : cred.not_after = now)
        => /\ mls_groups' = mls_groups
           /\ E2eiConversationState(Group(c, id))' = "Degraded"

\* C23: a conversation with at least one valid member and at least one member
\* that is not valid is Degraded, in whatever order its members are listed, and
\* a Verified conversation is Degraded, without any operation on it, once the
\* validity window of a member's certificate has elapsed
C23_DegradedWhenMixed == []DegradedWhenMixed /\ [][ExpiryStep]_vars

\* a conversation of two X.509 members is told Degraded after the certificate
\* of one of them has expired
C23_Witness ==
    /\ lastOp.op = "e2ei_conversation_state" /\ lastOp.out = "Degraded"
    /\ \E id \in DOMAIN mls_groups[lastOp.client] :
          LET g == Group(lastOp.client, id)
          IN  /\ Len(g.leaves) = 2
              /\ \A cred \in Creds(g) : cred.type = "X509" /\ cred.identity
              /\ \E cred \in Creds(g) : cred.not_after < now
              /\ \E cred \in Creds(g) : IsValid(cred)

NeverNotEnabledWithInvalid ==
    \A c \in Clients : \A id \in DOMAIN mls_groups[c] :
        (/\ \A cred \in Creds(Group(c, id)) : ~IsValid(cred)
         /\ \E cred \in Creds(Group(c, id)) : IsInvalid(cred))
        => \A r \in Reorderings(Group(c, id)) : E2eiConversationState(r) = "Degraded"

\* C24: a conversation without valid member in which at least one member holds
\* an invalid X.509 credential is Degraded, never NotEnabled, whether the other
\* members are Basic or invalid and in whatever order they are listed
C24_InvalidIsDegraded == NeverNotEnabledWithInvalid

ClassifierFrameStep ==
    \A c \in Clients : \A id \in Kept(c) :
        (/\ now' = now
         /\ Group(c, id)'.epoch = Group(c, id).epoch
         /\ Group(c, id)' # Group(c, id))
        => E2eiConversationState(Group(c, id))' = E2eiConversationState(Group(c, id))

\* C25: a step that changes a conversation without merging a commit into it,
\* such as a proposal received or queued or a commit left pending that adds,
\* removes or re-credentials a member, leaves the value of
\* e2ei_conversation_state as it was
C25_IgnoresPending == [][ClassifierFrameStep]_vars

\* a member is told the state of the merged epoch while its pending commit
\* would change it
C25_Witness ==
    /\ lastOp.op = "e2ei_conversation_state" /\ lastOp.ok
    /\ \E id \in DOMAIN mls_groups[lastOp.client] :
          LET g == Group(lastOp.client, id)
          IN  /\ g.pending # <<>>
              /\ lastOp.out = E2eiConversationState(g)
              /\ E2eiConversationState(MergePendingCommit(g, lastOp.client)) # lastOp.out

\* ------------------------------------- configuration and deferred initialisation
\* an application makes configurations of all sorts and centrals out of them
NextConfiguration ==
    \/ \E store_path \in Strings, identity_key \in Strings, client_id \in OptionClientId,
          entropy \in OptionEntropy :
          TryNewConfiguration(store_path, identity_key, client_id, entropy)
    \/ \E c \in Pair : MlsCentralTryNew(c)
    \/ \E c \in Pair : ClientId(c)

SpecConfiguration == Init /\ [][NextConfiguration]_vars

\* a Basic identifier and an X.509 one whose certificate is valid all along
Identifiers ==
    {BasicCredential} \cup {cert \in Certificates : cert.identity /\ cert.not_after = MaxTime}

\* an application makes centrals with and without a client id, initialises
\* the clients at construction or later, and calls what needs the client
NextInit ==
    \/ \E client_id \in {<<>>, <<<<"a">>>>} :
          configuration = <<>> /\ TryNewConfiguration(<<"a">>, <<"a">>, client_id, <<>>)
    \/ \E c \in Pair : MlsCentralTryNew(c)
    \/ \E c \in Pair, identifier \in Identifiers : MlsInit(c, identifier)
    \/ \E c \in Pair : MlsGenerateKeypairs(c)
    \/ \E c \in Pair, keys \in SUBSET (1..MaxKeypairs) : MlsInitWithClientId(c, keys)
    \/ \E c \in Pair : ClientPublicKey(c)
    \/ \E c \in Pair : ClientId(c)
    \/ \E c \in Pair : kp_count[c] < MaxPublished /\ GetOrCreateClientKeypackages(c, 1)
    \/ \E c \in Pair : ClientValidKeyPackagesCount(c)
    \/ \E c \in Creators, id \in ConvIds : NewConversation(c, id, {}, {c})
    \/ \E c \in Pair, d \in Pair, id \in ConvIds :
          c # d /\ CommitBudget(d, id) /\ JoinByExternalCommit(c, d, id)

SpecInit == Init /\ [][NextInit]_vars

\* a string without a character that is not white space
IsBlank(s) == \A i \in DOMAIN s : s[i] = " "

\* the field a configuration is refused for, "" when none is
RefusedField(store_path, identity_key, client_id) ==
    IF IsBlank(store_path) THEN "store_path"
    ELSE IF IsBlank(identity_key) THEN "identity_key"
    ELSE IF client_id # <<>> /\ Len(client_id[1]) = 0 THEN "client_id"
    ELSE ""

ConfigurationStep ==
    \A store_path \in Strings, identity_key \in Strings, client_id \in OptionClientId,
       entropy \in OptionEntropy :
        TryNewConfiguration(store_path, identity_key, client_id, entropy) =>
            LET field == RefusedField(store_path, identity_key, client_id)
            IN  IF field # ""
                THEN /\ ~lastOp'.ok
                     /\ lastOp'.err = "MalformedIdentifier(" \o field \o ")"
                     /\ configuration' = <<>>
                ELSE (entropy = <<>> \/ Len(entropy[1]) = EXPECTED_LEN) =>
                        /\ lastOp'.ok
                        /\ configuration' # <<>>
                        /\ configuration'[1].store_path = store_path
                        /\ configuration'[1].identity_key = identity_key
                        /\ configuration'[1].client_id = client_id

\* C26: MlsCentralConfiguration::try_new answers MalformedIdentifier("store_path")
\* for an empty or blank store_path, otherwise MalformedIdentifier("identity_key")
\* for an empty or blank identity_key, otherwise MalformedIdentifier("client_id")
\* for a client_id that is supplied and empty; with a store_path and an
\* identity_key that are not blank and a client_id absent or not empty the
\* configuration is accepted and holds what was given
C26_ConfigurationValidated == [][ConfigurationStep]_vars

\* a configuration was accepted with a blank client_id and a store_path that
\* starts with a blank
C26_Witness ==
    /\ lastOp.op = "configuration_try_new" /\ lastOp.ok
    /\ configuration # <<>>
    /\ configuration[1].client_id = <<<<" ">>>>
    /\ configuration[1].store_path = <<" ", "a">>

EntropyStep ==
    \A store_path \in Strings, identity_key \in Strings, client_id \in OptionClientId,
       entropy \in OptionEntropy :
        (/\ entropy # <<>>
         /\ Len(entropy[1]) # EXPECTED_LEN
         /\ TryNewConfiguration(store_path, identity_key, client_id, entropy))
        => /\ ~lastOp'.ok
           /\ lastOp'.out # "panic"
           /\ configuration' = <<>>

\* C27: an entropy seed that is shorter or longer than the expected length is
\* refused with an error value: the call does not panic, the seed is not cut
\* to the expected length, and no configuration is made
C27_EntropyLengthChecked == [][EntropyStep]_vars

\* the calls that need the client, and the calls that make it
NeedClient ==
    {"client_public_key", "client_id", "get_or_create_client_keypackages",
     "client_valid_key_packages_count", "new_conversation", "join_by_external_commit"}

MakeClient == {"mls_init", "mls_generate_keypairs", "mls_init_with_client_id"}

\* the step is a call of one of ops on the central of c
Calls(c, ops) == lastOp'.client = c /\ lastOp'.op \in ops

\* nothing but the record of the last call changes
OnlyAnswered ==
    UNCHANGED <<calls, configuration, ks_keypairs, credentials, callbacks, mls_client, mls_groups,
                ks_groups, ks_pending, ks_keypackages, kp_count, directory, network, nonce,
                now>>

\* deferred initialisation, with the calls that are held to succeed once the
\* central has a client
DeferredInitStep(succeed) ==
    \A c \in Clients :
        /\ (Calls(c, {"try_new"}) /\ configuration[1].client_id = <<>>) => ~mls_client'[c]
        /\ (Calls(c, NeedClient) /\ ~mls_client[c]) =>
              /\ ~lastOp'.ok /\ lastOp'.err = "MlsNotInitialized"
              /\ OnlyAnswered
        /\ (~mls_client[c] /\ mls_client'[c]) =>
              Calls(c, {"mls_init", "mls_init_with_client_id", "try_new"}) /\ lastOp'.ok
        /\ (Calls(c, {"mls_init", "mls_init_with_client_id"}) /\ lastOp'.ok) => mls_client'[c]
        /\ (Calls(c, NeedClient) /\ mls_client[c]) =>
              /\ lastOp'.err # "MlsNotInitialized"
              /\ <<lastOp'.op, credentials[c][1].type>> \in succeed => lastOp'.ok
        /\ (Calls(c, MakeClient) /\ mls_client[c]) =>
              /\ ~lastOp'.ok /\ lastOp'.err = "ImplementationError"
              /\ OnlyAnswered

\* every call that needs the client, for a client of either credential type
AllCalls == NeedClient \X {"Basic", "X509"}

\* C28, as stated: a central made without a client_id has no client; until
\* mls_init or mls_init_with_client_id succeeds every call that needs the
\* client fails with MlsNotInitialized and changes nothing, after which every
\* such call succeeds; mls_init, mls_generate_keypairs and
\* mls_init_with_client_id on a central that has a client fail and change nothing
C28_AllSucceedOnceInitialised == [][DeferredInitStep(AllCalls)]_vars

\* C28, amended: as above, but once the central has a client the calls no
\* longer fail with MlsNotInitialized and succeed, except client_public_key,
\* which succeeds only for a client with a Basic credential
C28_DeferredInit ==
    [][DeferredInitStep(AllCalls \ {<<"client_public_key", "X509">>})]_vars

\* a central that made its key pairs before it had a client, was given its
\* client id afterwards and then started a conversation
C28_Witness ==
    /\ lastOp.op = "new_conversation" /\ lastOp.client = "alice" /\ lastOp.ok
    /\ ks_keypairs["alice"] # {}
    /\ mls_client["alice"]

\* --------------------------------------------- calls that share a conversation
\* two threads of the creator add and remove members of its conversation while
\* it decrypts what the delivery service hands back
NextThreads ==
    \/ \E c \in Pair : MlsInit(c, BasicCredential)
    \/ \E c \in Pair \ Creators : kp_count[c] < MaxPublished /\ GetOrCreateClientKeypackages(c, 1)
    \/ \E c \in Creators, id \in ConvIds : NewConversation(c, id, {}, {c})
    \/ \E c \in Pair, w \in network : ProcessWelcomeMessage(c, w)
    \/ \E t \in Threads, c \in Creators, id \in ConvIds : \E kps \in SUBSET Invitable(c) :
          CommitBudget(c, id) /\ AddMembersWriteGroup(t, c, id, kps)
    \/ \E t \in Threads, c \in Creators, id \in ConvIds, clients \in {{i} : i \in Pair} :
          CommitBudget(c, id) /\ RemoveMembersReadGroup(t, c, id, clients)
    \/ \E t \in Threads : CanFresh("commit") /\ RemoveMembersWriteGroup(t)
    \/ \E t \in Threads : StateChanged(t)
    \/ \E t \in Threads : WriteGroupSave(t)
    \/ \E t \in Threads : MlsGroupPersistBuf(t)
    \/ \E c \in Pair, id \in ConvIds, m \in network : DecryptMessage(c, id, m)

SpecThreads == Init /\ [][NextThreads]_vars

\* the call of thread t has read the group of conversation id of c and has not
\* persisted it yet
InFlight(t, c, id) ==
    calls[t].pc \in {"read", "merged", "changed", "saved"}
        /\ calls[t].client = c /\ calls[t].id = id

\* the step is thread u reading or changing the group of conversation id of c
Touches(u, c, id) ==
    \/ \E kps \in SUBSET directory : AddMembersWriteGroup(u, c, id, kps)
    \/ \E clients \in SUBSET Clients : RemoveMembersReadGroup(u, c, id, clients)
    \/ /\ calls[u].client = c /\ calls[u].id = id
       /\ RemoveMembersWriteGroup(u) \/ StateChanged(u) \/ WriteGroupSave(u)

ExclusiveStep ==
    \A t \in Threads, c \in Clients, id \in ConvIds :
        InFlight(t, c, id) =>
            /\ \A u \in Threads \ {t} : ~Touches(u, c, id)
            /\ \A m \in network : ~DecryptMessage(c, id, m)

PersistsOwnStateStep ==
    \A t \in Threads :
        MlsGroupPersistBuf(t) =>
            ks_groups'[calls[t].client][calls[t].id] =
                Save(Group(calls[t].client, calls[t].id))

\* C29: from the first read of the group by a call of add_members or
\* remove_members until the call has persisted the group, no other call and
\* no decrypt_message reads or changes the group of that conversation, and the
\* row a call persists is the group as the call left it in memory
C29_ExclusiveUntilPersisted == [][ExclusiveStep /\ PersistsOwnStateStep]_vars

\* ------------------------------------------------- keystore write that fails
\* conversations in which the keystore refuses some of the writes
NextInterrupted ==
    \/ \E c \in Pair : MlsInit(c, BasicCredential)
    \/ \E c \in Pair \ Creators : kp_count[c] < MaxPublished /\ GetOrCreateClientKeypackages(c, 1)
    \/ \E c \in Creators, id \in ConvIds : \E extra \in SUBSET Invitable(c) :
          NewConversation(c, id, extra, {c})
    \/ \E c \in Pair, w \in network : ProcessWelcomeMessage(c, w)
    \/ \E c \in Creators, id \in ConvIds : \E kps \in SUBSET Invitable(c) :
          CommitBudget(c, id) /\ AddMembers(c, id, kps)
    \/ \E c \in Creators, id \in ConvIds : \E kps \in SUBSET Invitable(c) :
          CommitBudget(c, id) /\ AddMembersInterrupted(c, id, kps)
    \/ \E c \in Creators, id \in ConvIds, clients \in {{i} : i \in Pair} :
          CommitBudget(c, id) /\ RemoveMembers(c, id, clients)
    \/ \E c \in Pair, id \in ConvIds, m \in network : DecryptMessage(c, id, m)
    \/ \E c \in Pair, id \in ConvIds, m \in network : DecryptMessageInterrupted(c, id, m)

SpecInterrupted == Init /\ [][NextInterrupted]_vars

FailedCallStep ==
    \A c \in Clients :
        (/\ lastOp'.client = c /\ ~lastOp'.ok
         /\ lastOp'.op \in {"add_members", "remove_members", "decrypt_message"})
        => /\ ks_groups'[c] = ks_groups[c]
           /\ DOMAIN mls_groups'[c] = DOMAIN mls_groups[c]
           /\ \A id \in DOMAIN mls_groups[c] :
                 /\ Group(c, id)'.epoch = Group(c, id).epoch
                 /\ Members(Group(c, id)') = Members(Group(c, id))

\* C30: a call of add_members, remove_members or decrypt_message that returns
\* an error, the error of the keystore write that follows the merge included,
\* leaves the epoch and the members of the group in memory and the row of the
\* keystore as they were before the call
C30_FailureRevertsGroup == [][FailedCallStep]_vars

\* ================================================================ Proteus
\* the messages a session encrypts or decrypts before the model stops it
MaxRatchet == 1

\* the prekey ids in use
MaxPrekeyId == 1

SessionIds == {"s1", "s2"}

PrekeyIds == 1..MaxPrekeyId

\* the identity of the remote client
Peer == <<"pk", "bob">>

\* the key material IdentityKeyPair::new() can draw
KeySeeds == {"k1", "k2"}

\* the key material of the legacy Cryptobox client
LegacySeed == "k0"

IdentityKeyPair(seed) == [secret_key |-> <<"sk", seed>>, public_key |-> <<"pk", seed>>]

\* IdentityKeyPair::new(): any fresh pair
IdentityKeyPairNew == {IdentityKeyPair(seed) : seed \in KeySeeds}

\* PublicKey::fingerprint: the hex encoding of the public key
Fingerprint(public_key) == <<"hex", public_key>>

HexDecode(hex) == hex[2]

ToBytesExtended(secret_key) == <<"extended", secret_key>>

\* IdentityKeyPair::from_raw_key_pair
FromRawKeyPair(sk, pk) == [secret_key |-> sk[2], public_key |-> pk]

\* the row create_identity and the import write for a key pair
KeystoreIdentity(kp) ==
    [sk |-> ToBytesExtended(kp.secret_key), pk |-> HexDecode(Fingerprint(kp.public_key))]

\* ----------------------------------------- ProteusIdentity as EntityBase
\* SELECT rowid .. ORDER BY rowid ASC LIMIT 1, whatever the id asked for
ProteusIdentityFindOne(rows) == IF rows = <<>> THEN <<>> ELSE <<rows[1]>>

ProteusIdentityFindAll(rows) == ProteusIdentityFindOne(rows)

ProteusIdentityCount(rows) == Len(rows)

\* nothing is written when a row is there
ProteusIdentitySave(rows, e) ==
    IF ProteusIdentityCount(rows) = 1 THEN rows ELSE Append(rows, e)

\* query_row fails when the table is empty; the ids are not looked at
ProteusIdentityDelete(rows) ==
    IF rows = <<>> THEN [ok |-> FALSE, err |-> "DbError", rows |-> rows]
    ELSE [ok |-> TRUE, err |-> "", rows |-> Tail(rows)]

\* ------------------------------------------------------- ProteusCentral
\* Session::serialise and Session::deserialise: a session is bound to the
\* identity it was made with
Serialise(session) ==
    <<"cbor", session.local_identity, session.remote_identity, session.messages>>

Deserialise(identity, raw) ==
    IF Len(raw) = 4 /\ raw[1] = "cbor" /\ raw[2] = identity.public_key
    THEN [ok |-> TRUE,
          session |-> [local_identity |-> raw[2], remote_identity |-> raw[3], messages |-> raw[4]]]
    ELSE [ok |-> FALSE, session |-> <<>>]

NewSession(identity, remote) ==
    [local_identity |-> identity.public_key, remote_identity |-> remote, messages |-> 0]

CreateIdentity(rows, kp) ==
    [identity |-> kp, rows |-> ProteusIdentitySave(rows, KeystoreIdentity(kp))]

\* an init that makes an identity without looking for the row
LoadOrCreateIdentity_Create(rows, kp) == CreateIdentity(rows, kp)

\* kp is the pair IdentityKeyPair::new() makes if it is called
LoadOrCreateIdentity(rows, kp) ==
    LET found == ProteusIdentityFindOne(rows)
    IN  IF found # <<>>
        THEN [identity |-> FromRawKeyPair(found[1].sk, found[1].pk), rows |-> rows]
        ELSE CreateIdentity(rows, kp)

\* every row of the keystore is deserialised under the identity; the first
\* failure fails the call
RestoreSessions(identity, rows) ==
    IF \A id \in DOMAIN rows : Deserialise(identity, rows[id]).ok
    THEN [ok |-> TRUE,
          proteus_sessions |-> [id \in DOMAIN rows |-> Deserialise(identity, rows[id]).session]]
    ELSE [ok |-> FALSE, proteus_sessions |-> <<>>]

ProteusCentralTryNew(rows, sessions, kp) ==
    LET loaded == LoadOrCreateIdentity(rows, kp)
        restored == RestoreSessions(loaded.identity, sessions)
    IN  [ok |-> restored.ok, rows |-> loaded.rows,
         central |-> [proteus_identity |-> loaded.identity,
                      proteus_sessions |-> restored.proteus_sessions]]

SessionExists(central, session_id) == session_id \in DOMAIN central.proteus_sessions

\* keystore.remove can fail; the row is gone when it succeeds
KeystoreRemove(rows, id) ==
    {[ok |-> TRUE, rows |-> Del(rows, id)], [ok |-> FALSE, rows |-> rows]}

\* the serialised prekey bundles of the peer and a buffer that is none
PreKeyBundles == {<<"bundle", Peer>>, <<"garbage">>}

PreKeyBundleDeserialise(key) ==
    IF key[1] = "bundle" THEN [ok |-> TRUE, identity_key |-> key[2]]
    ELSE [ok |-> FALSE, identity_key |-> <<>>]

\* the first message of a session the peer made from one of our bundles
Envelopes == {[sender |-> Peer, prekey_id |-> id] : id \in PrekeyIds}

\* the ciphertexts a call of decrypt is given: of the peer, and of a stranger
Ciphertexts == {[sender |-> Peer], [sender |-> <<"pk", "eve">>]}

\* a central is set, or every call answers ProteusNotInitialized
NotInitialized(op) ==
    /\ proteus = <<>>
    /\ lastOp' = Err(op, "proteus", "ProteusNotInitialized")
    /\ UNCHANGED <<proteusVars, storage, memberVars, mlsVars>>

\* CoreCrypto::proteus_init
ProteusInit(kp) ==
    LET r == ProteusCentralTryNew(ks_identities, ks_sessions, kp)
    IN  /\ ks_identities' = r.rows
        /\ IF r.ok
           THEN /\ proteus' = <<r.central>>
                /\ lastOp' = OkMsg("proteus_init", "proteus",
                                   Fingerprint(r.central.proteus_identity.public_key))
           ELSE /\ proteus' = proteus
                /\ lastOp' = Err("proteus_init", "proteus", "ProteusError")
        /\ UNCHANGED <<ks_sessions, ks_prekeys, cryptobox, storage, memberVars, mlsVars>>

\* the central is dropped and the keystore closed, as when the application
\* stops
ProteusClose ==
    /\ proteus # <<>>
    /\ proteus' = <<>>
    /\ lastOp' = Ok("close", "proteus", "none")
    /\ UNCHANGED <<ks_identities, ks_sessions, ks_prekeys, cryptobox, storage, memberVars,
                   mlsVars>>

SetSessions(sessions) == <<[proteus[1] EXCEPT !.proteus_sessions = sessions]>>

ProteusSessionFromPrekey(session_id, key) ==
    \/ NotInitialized("session_from_prekey")
    \/ /\ proteus # <<>>
       /\ LET prekey == PreKeyBundleDeserialise(key)
          IN  IF prekey.ok
              THEN /\ proteus' = SetSessions(Put(proteus[1].proteus_sessions, session_id,
                                     NewSession(proteus[1].proteus_identity,
                                                prekey.identity_key)))
                   /\ lastOp' = Ok("session_from_prekey", "proteus", session_id)
              ELSE /\ proteus' = proteus
                   /\ lastOp' = Err("session_from_prekey", "proteus", "ProteusError")
       /\ UNCHANGED <<ks_identities, ks_sessions, ks_prekeys, cryptobox, storage, memberVars,
                      mlsVars>>

\* Session::init_from_message takes the prekey of the envelope out of the
\* keystore; the session is put in the map of the central
ProteusSessionFromMessage(session_id, envelope) ==
    \/ NotInitialized("session_from_message")
    \/ /\ proteus # <<>>
       /\ IF envelope.prekey_id \in DOMAIN ks_prekeys
          THEN /\ ks_prekeys' = Del(ks_prekeys, envelope.prekey_id)
               /\ proteus' = SetSessions(Put(proteus[1].proteus_sessions, session_id,
                                 NewSession(proteus[1].proteus_identity, envelope.sender)))
               /\ lastOp' = Ok("session_from_message", "proteus", session_id)
          ELSE /\ UNCHANGED <<ks_prekeys, proteus>>
               /\ lastOp' = Err("session_from_message", "proteus", "ProteusError")
       /\ UNCHANGED <<ks_identities, ks_sessions, cryptobox, storage, memberVars, mlsVars>>

ProteusSessionSave(session_id) ==
    \/ NotInitialized("session_save")
    \/ /\ proteus # <<>>
       /\ ks_sessions' = IF SessionExists(proteus[1], session_id)
                         THEN Put(ks_sessions, session_id,
                                  Serialise(proteus[1].proteus_sessions[session_id]))
                         ELSE ks_sessions
       /\ lastOp' = Ok("session_save", "proteus", session_id)
       /\ UNCHANGED <<ks_identities, ks_prekeys, proteus, cryptobox, storage, memberVars,
                      mlsVars>>

\* the session leaves the map when the keystore removed the row; the call
\* answers Ok(()) in every case
ProteusSessionDelete(session_id) ==
    \/ NotInitialized("session_delete")
    \/ /\ proteus # <<>>
       /\ \E removed \in KeystoreRemove(ks_sessions, session_id) :
              /\ ks_sessions' = removed.rows
              /\ proteus' = IF removed.ok
                            THEN SetSessions(Del(proteus[1].proteus_sessions, session_id))
                            ELSE proteus
       /\ lastOp' = Ok("session_delete", "proteus", session_id)
       /\ UNCHANGED <<ks_identities, ks_prekeys, cryptobox, storage, memberVars, mlsVars>>

ProteusSessionExists(session_id) ==
    \/ NotInitialized("session_exists")
    \/ /\ proteus # <<>>
       /\ lastOp' = Ok("session_exists", "proteus",
                       IF SessionExists(proteus[1], session_id) THEN "true" ELSE "false")
       /\ UNCHANGED <<proteusVars, storage, memberVars, mlsVars>>

\* the session after one more message
Ratchet(session) == [session EXCEPT !.messages = @ + 1]

ProteusEncrypt(session_id) ==
    \/ NotInitialized("encrypt")
    \/ /\ proteus # <<>>
       /\ IF SessionExists(proteus[1], session_id)
          THEN /\ proteus[1].proteus_sessions[session_id].messages < MaxRatchet
               /\ proteus' = SetSessions([proteus[1].proteus_sessions EXCEPT
                                             ![session_id] = Ratchet(@)])
               /\ lastOp' = OkKeys("encrypt", "proteus", {session_id})
          ELSE /\ proteus' = proteus
               /\ lastOp' = Err("encrypt", "proteus", "ConversationNotFound")
       /\ UNCHANGED <<ks_identities, ks_sessions, ks_prekeys, cryptobox, storage, memberVars,
                      mlsVars>>

ProteusDecrypt(session_id, ciphertext) ==
    \/ NotInitialized("decrypt")
    \/ /\ proteus # <<>>
       /\ IF SessionExists(proteus[1], session_id)
          THEN LET session == proteus[1].proteus_sessions[session_id]
               IN  IF ciphertext.sender = session.remote_identity
                   THEN /\ session.messages < MaxRatchet
                        /\ proteus' = SetSessions([proteus[1].proteus_sessions EXCEPT
                                                      ![session_id] = Ratchet(@)])
                        /\ lastOp' = Ok("decrypt", "proteus", "plaintext")
                   ELSE /\ proteus' = proteus
                        /\ lastOp' = Err("decrypt", "proteus", "ProteusError")
          ELSE /\ proteus' = proteus
               /\ lastOp' = Err("decrypt", "proteus", "ConversationNotFound")
       /\ UNCHANGED <<ks_identities, ks_sessions, ks_prekeys, cryptobox, storage, memberVars,
                      mlsVars>>

\* the ids of the list that have a session: the others are passed over
Encrypted(central, sessions) == {id \in sessions : SessionExists(central, id)}

\* the result is a map from the session ids that were encrypted for to the
\* ciphertexts
ProteusEncryptBatched(sessions) ==
    \/ NotInitialized("encrypt_batched")
    \/ /\ proteus # <<>>
       /\ LET acc == Encrypted(proteus[1], sessions)
          IN  /\ \A id \in acc : proteus[1].proteus_sessions[id].messages < MaxRatchet
              /\ proteus' = SetSessions([id \in DOMAIN proteus[1].proteus_sessions |->
                                IF id \in acc THEN Ratchet(proteus[1].proteus_sessions[id])
                                ELSE proteus[1].proteus_sessions[id]])
              /\ lastOp' = [OkKeys("encrypt_batched", "proteus", acc)
                               EXCEPT !.msg = <<sessions>>]
       /\ UNCHANGED <<ks_identities, ks_sessions, ks_prekeys, cryptobox, storage, memberVars,
                      mlsVars>>

\* fingerprint_local and fingerprint_remote
ProteusFingerprint(which, session_id) ==
    \/ NotInitialized(which)
    \/ /\ proteus # <<>>
       /\ lastOp' = IF SessionExists(proteus[1], session_id)
                    THEN LET session == proteus[1].proteus_sessions[session_id]
                         IN  OkMsg(which, "proteus",
                                   Fingerprint(IF which = "fingerprint_local"
                                               THEN session.local_identity
                                               ELSE session.remote_identity))
                    ELSE Err(which, "proteus", "ConversationNotFound")
       /\ UNCHANGED <<proteusVars, storage, memberVars, mlsVars>>

\* PreKey::serialise
KeystorePrekey(id) == <<"prekey", id>>

ProteusNewPrekey(prekey_id) ==
    \/ NotInitialized("new_prekey")
    \/ /\ proteus # <<>>
       /\ ks_prekeys' = Put(ks_prekeys, prekey_id, KeystorePrekey(prekey_id))
       /\ lastOp' = Ok("new_prekey", "proteus", "bundle")
       /\ UNCHANGED <<ks_identities, ks_sessions, proteus, cryptobox, storage, memberVars,
                      mlsVars>>

\* ---------------------------------------------------------- legacy import
\* the session the legacy client saved, and a file that is no session
LegacySession == Serialise(NewSession(IdentityKeyPair(LegacySeed), Peer))

\* the folders the legacy client can have left: identities/local_identity
\* or identities/local or none of them, the files of sessions/ and prekeys/
Cryptoboxes ==
    {[local_identity |-> old, local |-> new, sessions |-> s, prekeys |-> p] :
        old \in {<<>>, <<IdentityKeyPair(LegacySeed)>>},
        new \in {<<>>, <<[sec |-> TRUE, kp |-> IdentityKeyPair(LegacySeed)]>>,
                 <<[sec |-> FALSE, kp |-> <<>>]>>},
        s \in {<<>>, [id \in {"s1"} |-> LegacySession],
               [id \in SessionIds |-> IF id = "s1" THEN LegacySession ELSE <<"garbage">>]},
        p \in {<<>>, [id \in PrekeyIds |-> KeystorePrekey(id)],
               [id \in PrekeyIds |-> <<"garbage">>]}}

\* the identity of the folder and whether its file is deleted once imported
IdentityCheck(box) ==
    IF box.local_identity # <<>> THEN <<[kp |-> box.local_identity[1], delete |-> TRUE]>>
    ELSE IF box.local # <<>> /\ box.local[1].sec
         THEN <<[kp |-> box.local[1].kp, delete |-> FALSE]>>
         ELSE <<>>

\* an import that does not look for the row of a key
Imported_All(rows, files, valid) == {id \in DOMAIN files : id \in valid}

\* the files of a folder that are imported: those whose key has no row and
\* whose content passes the check
Imported(rows, files, valid) ==
    {id \in DOMAIN files : id \notin DOMAIN rows /\ id \in valid}

\* keystore.save of each imported file under its key
Merge(rows, files, ids) ==
    [id \in DOMAIN rows \cup ids |-> IF id \in ids THEN files[id] ELSE rows[id]]

\* kp is the pair IdentityKeyPair::new() makes if it is called
CryptoboxMigrateImpl(rows, sessions, prekeys, box, kp) ==
    LET found == ProteusIdentityFindOne(rows)
        check == IdentityCheck(box)
        imported == found = <<>> /\ check # <<>>
        rows1 == IF imported THEN ProteusIdentitySave(rows, KeystoreIdentity(check[1].kp))
                 ELSE rows
        identity == IF found # <<>> THEN FromRawKeyPair(found[1].sk, found[1].pk)
                    ELSE IF check # <<>> THEN check[1].kp
                    ELSE CreateIdentity(rows1, kp).identity
        rows2 == IF found = <<>> /\ check = <<>> THEN CreateIdentity(rows1, kp).rows ELSE rows1
        valid_sessions == {id \in DOMAIN box.sessions :
                               Deserialise(identity, box.sessions[id]).ok}
        valid_prekeys == {id \in DOMAIN box.prekeys : box.prekeys[id][1] = "prekey"}
    IN  [ks_identities |-> rows2,
         ks_sessions |-> Merge(sessions, box.sessions,
                               Imported(sessions, box.sessions, valid_sessions)),
         ks_prekeys |-> Merge(prekeys, box.prekeys,
                              Imported(prekeys, box.prekeys, valid_prekeys)),
         cryptobox |-> IF imported /\ check[1].delete
                       THEN [box EXCEPT !.local_identity = <<>>] ELSE box]

\* the legacy client ran on the device before
LegacyCryptobox(box) ==
    /\ cryptobox = <<>>
    /\ cryptobox' = <<box>>
    /\ lastOp' = Ok("cryptobox", "proteus", "none")
    /\ UNCHANGED <<ks_identities, ks_sessions, ks_prekeys, proteus, storage, memberVars,
                   mlsVars>>

\* ProteusCentral::cryptobox_migrate, on the folder of the legacy client
CryptoboxMigrate(kp) ==
    /\ cryptobox # <<>>
    /\ LET r == CryptoboxMigrateImpl(ks_identities, ks_sessions, ks_prekeys, cryptobox[1], kp)
       IN  /\ ks_identities' = r.ks_identities
           /\ ks_sessions' = r.ks_sessions
           /\ ks_prekeys' = r.ks_prekeys
           /\ cryptobox' = <<r.cryptobox>>
    /\ lastOp' = Ok("cryptobox_migrate", "proteus", "none")
    /\ UNCHANGED <<proteus, storage, memberVars, mlsVars>>

\* the life of a Proteus client on one device
NextProteus ==
    \/ \E kp \in IdentityKeyPairNew : ProteusInit(kp)
    \/ ProteusClose
    \/ \E id \in SessionIds, key \in PreKeyBundles : ProteusSessionFromPrekey(id, key)
    \/ \E id \in SessionIds, envelope \in Envelopes : ProteusSessionFromMessage(id, envelope)
    \/ \E id \in SessionIds : ProteusSessionSave(id)
    \/ \E id \in SessionIds : ProteusSessionDelete(id)
    \/ \E id \in SessionIds : ProteusSessionExists(id)
    \/ \E id \in SessionIds : ProteusEncrypt(id)
    \/ \E id \in SessionIds, ciphertext \in Ciphertexts : ProteusDecrypt(id, ciphertext)
    \/ \E sessions \in SUBSET SessionIds : ProteusEncryptBatched(sessions)
    \/ \E which \in {"fingerprint_local", "fingerprint_remote"}, id \in SessionIds :
           ProteusFingerprint(which, id)
    \/ \E id \in PrekeyIds : ProteusNewPrekey(id)

SpecProteus == Init /\ [][NextProteus]_vars

\* a device the legacy client ran on is moved to ProteusCentral
NextMigrate ==
    \/ \E box \in Cryptoboxes : LegacyCryptobox(box)
    \/ \E kp \in IdentityKeyPairNew : CryptoboxMigrate(kp)
    \/ \E kp \in IdentityKeyPairNew : ProteusInit(kp)
    \/ ProteusClose
    \/ \E id \in SessionIds, key \in PreKeyBundles : ProteusSessionFromPrekey(id, key)
    \/ \E id \in SessionIds : ProteusEncrypt(id)
    \/ \E id \in SessionIds : ProteusSessionSave(id)
    \/ \E id \in PrekeyIds : ProteusNewPrekey(id)

SpecMigrate == Init /\ [][NextMigrate]_vars

\* ------------------------------------------------------------------ claims
\* C31's case: a step on a device with a Proteus part
IdentityStep ==
    /\ Len(ks_identities') <= 1
    /\ ks_identities # <<>> => ks_identities' = ks_identities
    /\ (lastOp'.op = "proteus_init" /\ lastOp'.ok) =>
           /\ ks_identities' = <<KeystoreIdentity(proteus'[1].proteus_identity)>>
           /\ lastOp'.msg = <<Fingerprint(ks_identities'[1].pk)>>

\* C31: the keystore never holds more than one identity row, no call of
\* init, save or import changes the row once it is there, and every
\* ProteusCentral that is initialised holds the identity of the row: the one
\* the first initialisation created, also after the central was closed
C31_IdentityCreatedOnce == [][IdentityStep]_vars

\* a central initialised again on a keystore whose identity an earlier
\* central created and under which that central saved a session
C31_Witness ==
    /\ lastOp.op = "proteus_init"
    /\ lastOp.ok
    /\ ks_identities = <<KeystoreIdentity(IdentityKeyPair("k1"))>>
    /\ "s1" \in DOMAIN proteus[1].proteus_sessions

\* =============================================================== keystore
\* the persistent entity kinds whose EntityBase implementation is modelled
Kinds == {"ProteusIdentity", "E2eiEnrollment", "MlsHpkePrivateKey"}

\* the primary keys in use
EntityIds(kind) == IF kind = "ProteusIdentity" THEN {"1"} ELSE {"a", "b"}

\* the entities a caller saves: E2eiEnrollment { id, content },
\* MlsHpkePrivateKey { pk, sk }, ProteusIdentity { sk, pk }
Entities(kind) ==
    IF kind = "ProteusIdentity" THEN {KeystoreIdentity(kp) : kp \in IdentityKeyPairNew}
    ELSE IF kind = "E2eiEnrollment"
         THEN {[id |-> id, content |-> content] : id \in EntityIds(kind), content \in {"x", "y"}}
         ELSE {[pk |-> id, sk |-> sk] : id \in EntityIds(kind), sk \in {"x", "y"}}

\* Entity::id_raw
IdRaw(kind, e) ==
    IF kind = "ProteusIdentity" THEN "1"
    ELSE IF kind = "E2eiEnrollment" THEN e.id ELSE e.pk

\* the object store of a kind
Collection(kind) ==
    IF kind = "E2eiEnrollment" THEN "e2ei_enrollment" ELSE "mls_hpke_private_keys"

\* the object-store backend: save and delete; get, get_all and count read it
StorageSave(store, collection, id, e) == [store EXCEPT ![collection] = Put(@, id, e)]

StorageDelete(store, collection, ids) ==
    [store EXCEPT ![collection] = [id \in DOMAIN @ \ ids |-> @[id]]]

\* EntityBase::save
EntitySave(kind, e) ==
    /\ IF kind = "ProteusIdentity"
       THEN /\ ks_identities' = ProteusIdentitySave(ks_identities, e)
            /\ UNCHANGED storage
       ELSE /\ storage' = StorageSave(storage, Collection(kind), IdRaw(kind, e), e)
            /\ UNCHANGED ks_identities
    /\ lastOp' = OkMsg("save", kind, e)
    /\ UNCHANGED <<ks_sessions, ks_prekeys, proteus, cryptobox, memberVars, mlsVars>>

\* EntityBase::find_one
EntityFindOne(kind, id) ==
    /\ lastOp' = [Ok("find_one", kind, id)
                     EXCEPT !.msg = IF kind = "ProteusIdentity"
                                    THEN ProteusIdentityFindOne(ks_identities)
                                    ELSE IF id \in DOMAIN storage[Collection(kind)]
                                         THEN <<storage[Collection(kind)][id]>>
                                         ELSE <<>>]
    /\ UNCHANGED <<proteusVars, storage, memberVars, mlsVars>>

\* EntityBase::count
EntityCount(kind) ==
    /\ lastOp' = IF kind = "ProteusIdentity"
                 THEN OkCount("count", kind, ProteusIdentityCount(ks_identities))
                 ELSE IF kind = "E2eiEnrollment" THEN Err("count", kind, "ImplementationError")
                 ELSE OkCount("count", kind, Cardinality(DOMAIN storage[Collection(kind)]))
    /\ UNCHANGED <<proteusVars, storage, memberVars, mlsVars>>

\* EntityBase::find_all, with the default parameters
EntityFindAll(kind) ==
    /\ lastOp' = IF kind = "ProteusIdentity"
                 THEN OkKeys("find_all", kind,
                             {ProteusIdentityFindAll(ks_identities)[i] :
                                 i \in DOMAIN ProteusIdentityFindAll(ks_identities)})
                 ELSE IF kind = "E2eiEnrollment" THEN Err("find_all", kind, "ImplementationError")
                 ELSE OkKeys("find_all", kind,
                             {storage[Collection(kind)][id] :
                                 id \in DOMAIN storage[Collection(kind)]})
    /\ UNCHANGED <<proteusVars, storage, memberVars, mlsVars>>

\* EntityBase::delete
EntityDelete(kind, ids) ==
    /\ IF kind = "ProteusIdentity"
       THEN LET r == ProteusIdentityDelete(ks_identities)
            IN  /\ ks_identities' = r.rows
                /\ lastOp' = IF r.ok THEN OkKeys("delete", kind, ids)
                             ELSE [Err("delete", kind, r.err) EXCEPT !.keys = ids]
                /\ UNCHANGED storage
       ELSE /\ storage' = StorageDelete(storage, Collection(kind), ids)
            /\ lastOp' = OkKeys("delete", kind, ids)
            /\ UNCHANGED ks_identities
    /\ UNCHANGED <<ks_sessions, ks_prekeys, proteus, cryptobox, memberVars, mlsVars>>

\* the typed operations of the keystore, on every kind
NextKeystore ==
    \/ \E kind \in Kinds : \E e \in Entities(kind) : EntitySave(kind, e)
    \/ \E kind \in Kinds : \E id \in EntityIds(kind) : EntityFindOne(kind, id)
    \/ \E kind \in Kinds : EntityCount(kind)
    \/ \E kind \in Kinds : EntityFindAll(kind)
    \/ \E kind \in Kinds : \E ids \in SUBSET EntityIds(kind) : EntityDelete(kind, ids)

SpecKeystore == Init /\ [][NextKeystore]_vars

\* the rows of a kind as a map from primary key to entity
Rows(kind, identities, store) ==
    IF kind = "ProteusIdentity"
    THEN IF identities = <<>> THEN <<>> ELSE [id \in {"1"} |-> identities[1]]
    ELSE store[Collection(kind)]

\* C32's case: an operation of the keystore on a kind, against the map of
\* the rows of that kind before and after it
MapStep ==
    LET kind == lastOp'.client
        before == Rows(kind, ks_identities, storage)
        after == Rows(kind, ks_identities', storage')
    IN  lastOp'.client \in Kinds =>
            /\ lastOp'.ok
            /\ lastOp'.op = "save" =>
                   after = Put(before, IdRaw(kind, lastOp'.msg[1]), lastOp'.msg[1])
            /\ lastOp'.op = "find_one" =>
                   lastOp'.msg = IF lastOp'.out \in DOMAIN before THEN <<before[lastOp'.out]>>
                                 ELSE <<>>
            /\ lastOp'.op = "count" => lastOp'.count = Cardinality(DOMAIN before)
            /\ lastOp'.op = "find_all" => lastOp'.keys = {before[id] : id \in DOMAIN before}
            /\ lastOp'.op = "delete" =>
                   after = [id \in DOMAIN before \ lastOp'.keys |-> before[id]]

\* C32: for every entity kind save, find_one, count, find_all and delete
\* succeed and act on the rows of the kind as on a map keyed by the primary
\* key: save puts the entity under its key whether or not the key was there,
\* find_one, count and find_all read the map, delete takes out the listed
\* keys and no other, absent keys included
C32_EntitiesAreMaps == [][MapStep]_vars

\* C33's case: a call of session_from_message that succeeded
SessionFromMessageStep ==
    (lastOp'.op = "session_from_message" /\ lastOp'.ok) =>
        /\ lastOp'.out \in DOMAIN ks_sessions'
        /\ \A kp \in IdentityKeyPairNew :
               LET later == ProteusCentralTryNew(ks_identities', ks_sessions', kp)
               IN  later.ok /\ SessionExists(later.central, lastOp'.out)

\* C33: when session_from_message returns, the session is in the keystore
\* under its id, so that a ProteusCentral made from the keystore afterwards
\* has the session, without any call of session_save
C33_PersistedOnReceive == [][SessionFromMessageStep]_vars

\* what the import leaves in the keystore and in the folder, as a tuple of
\* proteusVars
Migrated(rows, sessions, prekeys, box, kp) ==
    LET r == CryptoboxMigrateImpl(rows, sessions, prekeys, box, kp)
    IN  <<r.ks_identities, r.ks_sessions, r.ks_prekeys, proteus, <<r.cryptobox>>>>

\* C34's case: a call of cryptobox_migrate on the folder the legacy client
\* left
MigrateStep ==
    lastOp'.op = "cryptobox_migrate" =>
        LET box == cryptobox[1]
            legacy == IdentityCheck(box)
            identity == FromRawKeyPair(ks_identities'[1].sk, ks_identities'[1].pk)
        IN  /\ lastOp'.ok
            \* the identity: the row that was there, else the one of the folder
            /\ Len(ks_identities') = 1
            /\ ks_identities # <<>> => ks_identities' = ks_identities
            /\ (ks_identities = <<>> /\ legacy # <<>>) =>
                   ks_identities' = <<KeystoreIdentity(legacy[1].kp)>>
            \* the sessions and the prekeys: the rows that were there are kept,
            \* the valid files of the folder are added, nothing else is
            /\ \A id \in DOMAIN ks_sessions : id \in DOMAIN ks_sessions'
                                              /\ ks_sessions'[id] = ks_sessions[id]
            /\ \A id \in DOMAIN ks_sessions' \ DOMAIN ks_sessions :
                   id \in DOMAIN box.sessions /\ ks_sessions'[id] = box.sessions[id]
            /\ \A id \in DOMAIN box.sessions :
                   Deserialise(identity, box.sessions[id]).ok => id \in DOMAIN ks_sessions'
            /\ \A id \in DOMAIN ks_prekeys : id \in DOMAIN ks_prekeys'
                                             /\ ks_prekeys'[id] = ks_prekeys[id]
            /\ \A id \in DOMAIN ks_prekeys' \ DOMAIN ks_prekeys :
                   id \in DOMAIN box.prekeys /\ ks_prekeys'[id] = box.prekeys[id]
            /\ \A id \in DOMAIN box.prekeys :
                   box.prekeys[id] = KeystorePrekey(id) => id \in DOMAIN ks_prekeys'
            \* a second import changes nothing
            /\ \A kp \in IdentityKeyPairNew :
                   Migrated(ks_identities', ks_sessions', ks_prekeys', cryptobox'[1], kp)
                       = proteusVars'
            \* a central made afterwards has the identity and the sessions
            /\ \A kp \in IdentityKeyPairNew :
                   LET later == ProteusCentralTryNew(ks_identities', ks_sessions', kp)
                   IN  /\ later.ok
                       /\ later.rows = ks_identities'
                       /\ DOMAIN later.central.proteus_sessions = DOMAIN ks_sessions'
                       /\ (ks_identities = <<>> /\ legacy # <<>>) =>
                              Fingerprint(later.central.proteus_identity.public_key)
                                  = Fingerprint(legacy[1].kp.public_key)

MergingCalls == {"add_members", "remove_members", "commit_accepted", "decrypt_message"}

\* the calls that insert a conversation in the store of the central
InsertingCalls ==
    {"new_conversation", "process_welcome_message", "merge_pending_group_from_external_commit"}

\* C35's case: a call of decrypt_message with a proposal or an application
\* message that the conversation accepts; and any call that changes the epoch
\* or the members of a conversation
FrameStep ==
    /\ \A c \in Clients, id \in ConvIds, m \in network :
           (id \in DOMAIN mls_groups[c] /\ DecryptMessage(c, id, m) /\ lastOp'.ok) =>
               LET r == ProcessMessage(Group(c, id), c, m)
                   before == Group(c, id)
                   after == mls_groups'[c][id].group
               IN  /\ r.kind = "proposal" =>
                          /\ after.proposals = before.proposals \cup {m}
                          /\ lastOp'.out = "none"
                          /\ after.epoch = before.epoch
                          /\ after.members = before.members
                          /\ after.pending = before.pending
                   /\ r.kind = "application" =>
                          /\ lastOp'.out = m.text
                          /\ after.epoch = before.epoch
                          /\ after.members = before.members
                          /\ after.proposals = before.proposals
                          /\ after.pending = before.pending
                   /\ (after.epoch # before.epoch \/ after.members # before.members) =>
                          r.kind = "commit"
    /\ \A c \in Clients, id \in ConvIds :
           (/\ id \in DOMAIN mls_groups[c]
            /\ id \in DOMAIN mls_groups'[c]
            /\ \/ mls_groups'[c][id].group.epoch # Group(c, id).epoch
               \/ mls_groups'[c][id].group.members # Group(c, id).members) =>
               lastOp'.op \in MergingCalls \cup InsertingCalls

NextStaleJoin ==
    \/ \E c \in Pair : MlsInit(c, BasicCredential)
    \/ \E c \in Creators, id \in ConvIds : NewConversation(c, id, {}, {c})
    \/ \E c \in Pair, d \in Pair, id \in ConvIds :
          c # d /\ CommitBudget(d, id) /\ JoinByExternalCommit(c, d, id)
    \/ \E c \in Pair, id \in ConvIds : MergePendingGroupFromExternalCommit(c, id)
    \/ \E c \in Creators, id \in ConvIds : CommitBudget(c, id) /\ Reinit(c, id)
    \/ \E c \in Creators, id \in ConvIds : CommitAccepted(c, id)
    \/ \E c \in Pair, id \in ConvIds, m \in network : DecryptMessage(c, id, m)

SpecStaleJoin == Init /\ [][NextStaleJoin]_vars

\* m is an external commit of another client made from the group info of an
\* epoch the group of c has left
StaleExternalCommit(c, id, m) ==
    /\ m.type = "commit"
    /\ m.external
    /\ m.sender # c
    /\ m.id = Group(c, id).id
    /\ m.epoch < Group(c, id).epoch

\* C36's case: a member is given an external commit that was built before
\* the member advanced the conversation
StaleJoinStep ==
    \A c \in Clients, id \in ConvIds, m \in network :
        (/\ id \in DOMAIN mls_groups[c]
         /\ Group(c, id).active
         /\ StaleExternalCommit(c, id, m)
         /\ DecryptMessage(c, id, m)) =>
            /\ lastOp' = Err("decrypt_message", c, "WrongEpoch")
            /\ mls_groups' = mls_groups
            /\ ks_groups' = ks_groups

\* C36: once a member has merged a commit of its own, decrypt_message of an
\* external commit a joiner built from the group info of the epoch before
\* fails with WrongEpoch and leaves the group of the member, in memory and
\* in the keystore, as it was
C36_StaleExternalCommitRefused == [][StaleJoinStep]_vars

\* alice, who advanced the conversation after bob built his external commit,
\* has refused that commit
C36_Witness ==
    /\ lastOp = Err("decrypt_message", "alice", "WrongEpoch")
    /\ "g1" \in DOMAIN mls_groups["alice"]
    /\ Group("alice", "g1").epoch > 0
    /\ Group("alice", "g1").members = {"alice"}
    /\ \E m \in network : StaleExternalCommit("alice", "g1", m) /\ m.sender = "bob"

\* the errors of the inserting calls, which are those of a call on an id the
\* store does not hold
InsertErrors ==
    {"MlsNotInitialized", "DuplicateIdentityAddProposal", "NoMatchingKeyPackage",
     "MissingKeyInStore(MlsPendingGroup)"}

\* C37's case: an inserting call of a client that holds a conversation under
\* the only id in use
CollisionStep ==
    \A c \in Clients, id \in ConvIds :
        (/\ id \in DOMAIN mls_groups[c]
         /\ lastOp'.client = c
         /\ lastOp'.op \in InsertingCalls) =>
            IF lastOp'.ok
            THEN /\ id \in DOMAIN mls_groups'[c]
                 /\ mls_groups'[c][id].group # Group(c, id)
                 /\ mls_groups'[c][id].group.tx # Group(c, id).tx
                    \/ mls_groups'[c][id].group.epoch # Group(c, id).epoch
                 /\ id \in DOMAIN ks_groups'[c]
                 /\ Load(ks_groups'[c][id]) = mls_groups'[c][id].group
            ELSE /\ lastOp'.err \in InsertErrors
                 /\ mls_groups' = mls_groups
                 /\ ks_groups' = ks_groups

MissingSessionStep(id) ==
    /\ proteus # <<>>
    /\ ~SessionExists(proteus[1], id)
    /\ \/ ProteusEncrypt(id)
       \/ \E ciphertext \in Ciphertexts : ProteusDecrypt(id, ciphertext)
       \/ \E which \in {"fingerprint_local", "fingerprint_remote"} :
              ProteusFingerprint(which, id)

NotFoundStep ==
    /\ \A id \in SessionIds :
           MissingSessionStep(id) =>
               ~lastOp'.ok /\ lastOp'.err = "ConversationNotFound"
    /\ lastOp'.op = "encrypt_batched" /\ lastOp'.ok =>
           lastOp'.keys = lastOp'.msg[1]

\* C38: encrypt, decrypt, fingerprint_local and fingerprint_remote on a
\* session id without an in-memory session return the not-found error, and
\* a successful encrypt_batched returns a ciphertext for every session id
\* it was asked for, never leaving one out.
C38_NoSilentRecovery == [][NotFoundStep]_vars


\* ------------------------------------------------------ conversation member
\* the key-package bundles the backend is asked for, over all members
MaxKeyPackages == 8

\* CredentialBundle::new for a user id, and the key it is stored under
CredentialBundle(id) == <<"credentials", id>>

SignatureKey(credential_bundle) == <<"signature_key", credential_bundle[2]>>

\* the bundles the key store holds
StoredBundles(store) == {k \in DOMAIN store : k[1] = "hash"}

\* KeyPackageBundle::new: a bundle of fresh keys, the n-th the backend made
KeyPackageBundle(credential_bundle, n) == [credentials |-> credential_bundle, n |-> n]

\* KeyPackage::hash
KeyPackageHash(kpb) == <<"hash", kpb.n>>

\* a generation that does not store the bundle
GenKeypackage_NotStored(m, store) ==
    LET kpb == KeyPackageBundle(m.credentials, Cardinality(StoredBundles(store)) + 1)
    IN  [member |-> [m EXCEPT !.keypackage_bundles = Append(@, kpb)],
         key_store |-> store]

\* ConversationMember::gen_keypackage: the member and the key store after it
GenKeypackage(m, store) ==
    LET kpb == KeyPackageBundle(m.credentials, Cardinality(StoredBundles(store)) + 1)
    IN  [member |-> [m EXCEPT !.keypackage_bundles = Append(@, kpb)],
         key_store |-> Put(store, KeyPackageHash(kpb), kpb)]

\* ConversationMember::keypackage_hash: the hash returned, the member and
\* the key store after the call, and the bundles generated on the way
RECURSIVE KeypackageHash(_, _, _)
KeypackageHash(m, store, generated) ==
    IF m.keypackage_bundles # <<>>
    THEN LET kpb == m.keypackage_bundles[Len(m.keypackage_bundles)]
         IN  [hash |-> KeyPackageHash(kpb),
              member |-> [m EXCEPT !.keypackage_bundles = SubSeq(@, 1, Len(@) - 1)],
              key_store |-> store,
              generated |-> generated]
    ELSE LET r == GenKeypackage(m, store)
         IN  KeypackageHash(r.member, r.key_store, generated + 1)

\* ConversationMember::generate
MemberGenerate(id) ==
    /\ member[id] = <<>>
    /\ Cardinality(StoredBundles(key_store)) < MaxKeyPackages
    /\ LET credential_bundle == CredentialBundle(id)
           r == GenKeypackage([id |-> id, credentials |-> credential_bundle,
                               keypackage_bundles |-> <<>>],
                              Put(key_store, SignatureKey(credential_bundle),
                                  credential_bundle))
       IN  /\ member' = [member EXCEPT ![id] = <<r.member>>]
           /\ key_store' = r.key_store
    /\ lastOp' = Ok("generate", id, "member")
    /\ UNCHANGED <<proteusVars, storage, mlsVars>>

\* ConversationMember::keypackage_hash on the member of a user id
MemberKeypackageHash(id) ==
    /\ member[id] # <<>>
    /\ member[id][1].keypackage_bundles = <<>> =>
           Cardinality(StoredBundles(key_store)) < MaxKeyPackages
    /\ LET r == KeypackageHash(member[id][1], key_store, 0)
       IN  /\ member' = [member EXCEPT ![id] = <<r.member>>]
           /\ key_store' = r.key_store
           /\ lastOp' = [OkMsg("keypackage_hash", id, r.hash) EXCEPT !.count = r.generated]
    /\ UNCHANGED <<proteusVars, storage, mlsVars>>

\* the members of one backend
NextMember ==
    \/ \E id \in UserIds : MemberGenerate(id)
    \/ \E id \in UserIds : MemberKeypackageHash(id)

SpecMember == Init /\ [][NextMember]_vars


\* a step of keypackage_hash by the member of id
KeypackageHashStep(id) ==
    LET before == member[id][1].keypackage_bundles
        after == member'[id][1].keypackage_bundles
        new == DOMAIN key_store' \ DOMAIN key_store
    IN  /\ lastOp'.ok
        /\ lastOp'.msg[1][1] = "hash"
        /\ IF before # <<>>
           THEN /\ lastOp'.msg = <<KeyPackageHash(before[Len(before)])>>
                /\ Len(after) = Len(before) - 1
                /\ lastOp'.count = 0
                /\ key_store' = key_store
           ELSE /\ lastOp'.count = 1
                /\ new = {lastOp'.msg[1]}
                /\ KeyPackageHash(key_store'[lastOp'.msg[1]]) = lastOp'.msg[1]
                /\ after = <<>>
                /\ \A k \in DOMAIN key_store : key_store'[k] = key_store[k]

NeverRunOutStep ==
    \A id \in UserIds :
        lastOp'.op = "keypackage_hash" /\ lastOp'.client = id => KeypackageHashStep(id)

\* C39: every call of keypackage_hash returns a key-package hash; it takes
\* one bundle from the member, and when the member has none it generates
\* exactly one, which is in the key store when the call returns.
C39_NeverRunsOut == [][NeverRunOutStep]_vars

\* a member that was out of bundles has been handed a hash three times
C39_Witness ==
    /\ lastOp.op = "keypackage_hash"
    /\ lastOp.ok
    /\ lastOp.count = 1
    /\ lastOp.msg = <<<<"hash", 3>>>>
    /\ member[lastOp.client][1].keypackage_bundles = <<>>


\* ------------------------------------------------------- deleted sessions
\* after a successful session_delete the session is in neither place
DeletedStep ==
    lastOp'.op = "session_delete" /\ lastOp'.ok =>
        /\ ~SessionExists(proteus'[1], lastOp'.out)
        /\ lastOp'.out \notin DOMAIN ks_sessions'

\* a central initialised from the keystore has the sessions of its rows
RestoredStep ==
    lastOp'.op = "proteus_init" /\ lastOp'.ok =>
        DOMAIN proteus'[1].proteus_sessions = DOMAIN ks_sessions

\* C40: once session_delete has returned success the session exists
\* neither in memory nor in the keystore, saved before or not, and a
\* central initialised from the keystore holds exactly the sessions that
\* were saved and not deleted.
C40_DeletedEverywhere == [][DeletedStep /\ RestoredStep]_vars

====
